---------------------------- MODULE Spec2Model ----------------------------
(***************************************************************************)
(* Model of the codebase audit pipeline of ovie-best/agent-challenge.      *)
(*                                                                         *)
(* Spec        the codebase-audit workflow                                 *)
(*             (workflows/codebase-audit-workflow.ts): assess-health, the  *)
(*             seven parallel steps, generate-report.                      *)
(* SpecHealth  codebaseHealthTool (tools/codebase-health-score-tool.ts),   *)
(*             run twice against one remote repository while the clock     *)
(*             advances.                                                   *)
(* SpecLookup  codebaseHealthTool when one of its existence lookups fails. *)
(* SpecDeps    dependencyAnalysisTool (code-health-agent.ts): the          *)
(*             concurrent per-dependency lookups and the result.           *)
(* SpecDetect  codebaseTypeDetector (tools/codebaseType-detector-tool.ts). *)
(* SpecCover   testCoverageTool (tools/test-coverage-tool.ts).             *)
(***************************************************************************)
EXTENDS Integers, Sequences, FiniteSets, TLC

VARIABLES
    \* ---- codebase-audit workflow ----
    repoUrl,      \* the workflow input, a parsed URL [host, path]
    remote,       \* the GitHub repository the run looks at
    health,       \* the health block assess-health returned (NoHealth before)
    run,          \* per step: status, the health it received, branch, calls, error, output
    wfStatus,     \* "running" | "failed" | "success"
    reportInput,  \* the data handed to generate-report (section -> output)
    \* ---- codebaseHealthTool ----
    toolRemote,   \* the GitHub repository the tool looks at
    weights,      \* the weights input of the tool
    now,          \* Date.now(), in half days
    ticks,        \* clock advances so far
    assessments,  \* the results of the tool's runs so far, oldest first
    lookupFault,  \* the existence lookup that fails in this environment
    \* ---- dependencyAnalysisTool ----
    depEnv,       \* package.json, the registry, the advisories, weights, clock
    depRun,       \* the analysis in flight, then its outcome
    \* ---- codebaseTypeDetector ----
    detEnv,       \* the repository's manifests and the tool's input
    detRun,       \* the detection in flight, then its outcome
    \* ---- testCoverageTool ----
    covEnv,       \* the repository tree, its report files, the depth input
    covRun,       \* the search in flight, then its outcome
    \* ---- aggregate-results (codebase-health-workflow) ----
    aggEnv,       \* the inputData of the step
    aggRun,       \* the step in flight, then its outcome
    \* ---- staticAnalysisTool ----
    staEnv,       \* the repository tree, the file contents, the depth input
    staRun,       \* the traversal in flight, then its outcome
    \* ---- gitHistoryTool ----
    gitEnv,       \* the repository's commits and the tool's input
    gitRun        \* the paging loop in flight, then its outcome

wfVars == <<remote, health, run, wfStatus, reportInput>>
toolVars == <<toolRemote, weights, now, ticks, assessments, lookupFault>>
depVars == <<depEnv, depRun>>
detVars == <<detEnv, detRun>>
covVars == <<covEnv, covRun>>
aggVars == <<aggEnv, aggRun>>
staVars == <<staEnv, staRun>>
gitVars == <<gitEnv, gitRun>>
vars == <<repoUrl, remote, health, run, wfStatus, reportInput,
          toolRemote, weights, now, ticks, assessments, lookupFault,
          depEnv, depRun, detEnv, detRun, covEnv, covRun,
          aggEnv, aggRun, staEnv, staRun, gitEnv, gitRun>>

Min(a, b) == IF a < b THEN a ELSE b
Max(a, b) == IF a > b THEN a ELSE b

(***************************************************************************)
(* Repository references.  A URL is its host and its path segments; the    *)
(* pattern /github\.com\/([^/]+)\/([^/]+)/i needs the host github.com      *)
(* followed by two non-empty segments.                                     *)
(***************************************************************************)
Undefined == "undefined"

RepoUrls ==
    { [host |-> "github.com",  path |-> <<"ovie-best", "agent-challenge">>],
      [host |-> "github.com",  path |-> <<"ovie-best">>],
      [host |-> "example.com", path |-> <<"ovie-best", "agent-challenge">>] }

\* repoUrl.match(/github\.com\/([^/]+)\/([^/]+)/i)
UrlMatches(url) == url.host = "github.com" /\ Len(url.path) >= 2

\* const [_, owner, repo] = repoUrl.match(...) || [];
DestructureOwnerRepo(url) ==
    IF UrlMatches(url)
    THEN [owner |-> url.path[1], repo |-> url.path[2]]
    ELSE [owner |-> Undefined, repo |-> Undefined]

(***************************************************************************)
(* The remote repository as the workflow's steps see it.                   *)
(***************************************************************************)
PerPage == 100

RemoteRepos ==
    [ size         : {500, 2000},          \* repoData.size, KB
      archived     : BOOLEAN,              \* repoData.archived
      openIssues   : {0, 10},              \* issues.length
      commits      : {0, PerPage},         \* commits.length, at most per_page
      contributors : {0, 6},               \* contributors.length
      packageJson  : {"absent", "invalid", "react"},
      lernaJson    : BOOLEAN,
      testFiles    : {0, 3},               \* entries of test/
      srcFiles     : {6} ]                 \* entries of src/

(***************************************************************************)
(* Steps.                                                                  *)
(***************************************************************************)
AssessHealthId == "assess-health"
ParallelSteps == {"pass-health", "fetch-repo-data", "profile-codebase",
                  "git-analysis", "static-analysis", "dependency-analysis",
                  "test-analysis"}
\* the five deep-audit analyzers, and the section each one fills
Analyzers == {"profile-codebase", "git-analysis", "static-analysis",
              "dependency-analysis", "test-analysis"}
ConditionalSteps == {"git-analysis", "static-analysis", "dependency-analysis",
                     "test-analysis"}
Steps == {AssessHealthId} \cup ParallelSteps

EmptyObject == [f \in {} |-> 0]
NoHealth == [score |-> -1, summary |-> ""]

Pending == [status |-> "pending", health |-> NoHealth, branch |-> "none",
            calls |-> 0, error |-> "none", output |-> EmptyObject]

\* a step's execute returned `out` after `n` requests to GitHub
Returned(h, br, n, out) ==
    [status |-> "success", health |-> h, branch |-> br, calls |-> n,
     error |-> "none", output |-> out]

\* a step's execute threw `err` after `n` requests to GitHub
Threw(h, br, n, err) ==
    [status |-> "failed", health |-> h, branch |-> br, calls |-> n,
     error |-> err, output |-> EmptyObject]

(***************************************************************************)
(* assess-health                                                           *)
(***************************************************************************)
\* mutant: a full page of commits earns the higher term
HealthScoreOf_FullPage(r) ==
    Min(100,
        (IF r.size > 1000 THEN 30 ELSE 50)
      + (IF r.commits >= 100 THEN 20 ELSE 10)
      + (IF r.openIssues < 10 THEN 20 ELSE 10)
      + (IF r.archived THEN -20 ELSE 0))

\* Math.min(100, Math.floor(size + commits + issues + archived terms))
HealthScoreOf(r) ==
    Min(100,
        (IF r.size > 1000 THEN 30 ELSE 50)
      + (IF r.commits > 100 THEN 20 ELSE 10)
      + (IF r.openIssues < 10 THEN 20 ELSE 10)
      + (IF r.archived THEN -20 ELSE 0))

\* summary: score >= 80 ? "Healthy codebase" : "Needs full audit"
HealthSummary(score) ==
    IF score >= 80 THEN "Healthy codebase" ELSE "Needs full audit"

\* Which of a step's n requests rejects (0: none).  A request for an
\* undefined owner or repo goes out as /repos// and GitHub answers 404: the
\* first request of the step rejects.
RejectChoices(ref, n) ==
    IF ref.owner = Undefined \/ ref.repo = Undefined THEN {1} ELSE 0 .. n

\* The three requests are repos.get, repos.listCommits, issues.listForRepo;
\* rej = 0: none rejects, rej = k: the k-th rejects and the step throws.
AssessHealth ==
    /\ wfStatus = "running"
    /\ run[AssessHealthId].status = "pending"
    /\ \E rej \in RejectChoices(DestructureOwnerRepo(repoUrl), 3) :
         IF rej = 0
         THEN LET score == HealthScoreOf(remote)
                  h == [score |-> score, summary |-> HealthSummary(score)]
              IN /\ health' = h
                 /\ run' = [run EXCEPT ![AssessHealthId] =
                               Returned(NoHealth, "full", 3, [health |-> h])]
                 /\ wfStatus' = "running"
         ELSE /\ health' = health
              /\ run' = [run EXCEPT ![AssessHealthId] =
                            Threw(NoHealth, "full", rej, "HttpError")]
              /\ wfStatus' = "failed"
    /\ UNCHANGED <<repoUrl, remote, reportInput>>
    /\ UNCHANGED <<toolVars, depVars, detVars, covVars, aggVars, staVars, gitVars>>

(***************************************************************************)
(* The parallel block: .then(assessHealth).parallel([...])                 *)
(***************************************************************************)
\* mutant: the block is not chained after assess-health
ParallelReady_NoThen == wfStatus = "running"

\* a step of the parallel block may start
ParallelReady == wfStatus = "running" /\ run[AssessHealthId].status = "success"

CanStart(s) == ParallelReady /\ run[s].status = "pending"

Settle(s, rec) ==
    /\ run' = [run EXCEPT ![s] = rec]
    /\ UNCHANGED <<repoUrl, remote, health, wfStatus, reportInput>>
    /\ UNCHANGED <<toolVars, depVars, detVars, covVars, aggVars, staVars, gitVars>>

\* pass-health: forwards the health block
PassHealth ==
    /\ CanStart("pass-health")
    /\ Settle("pass-health", Returned(health, "full", 0, [health |-> health]))

\* fetch-repo-data: listCommits and listForRepo reject to the caller; the
\* two checkFileExists and countFiles catch.
FetchRepoData ==
    /\ CanStart("fetch-repo-data")
    /\ \E rej \in 0 .. 2 :
         Settle("fetch-repo-data",
                IF rej = 0
                THEN Returned(health, "full", 5,
                              [openIssues |-> remote.openIssues,
                               testCoverage |-> IF remote.testFiles > 0 THEN 70 ELSE 0,
                               dependencyCount |-> 0])
                ELSE Threw(health, "full", rej, "HttpError"))

\* profile-codebase: no gate on the score; every failure is caught and
\* turned into the fallback profile.
ProfileOf(r) ==
    IF r.packageJson = "invalid"
    THEN [type |-> "Backend", languages |-> <<>>, frameworks |-> <<>>,
          confidence |-> 5, warnings |-> <<"Analysis failed">>]
    ELSE [type |-> IF r.lernaJson THEN "Monorepo"
                   ELSE IF r.packageJson = "react" THEN "Frontend"
                   ELSE "Backend",
          languages |-> <<"JavaScript">>,
          frameworks |-> IF r.packageJson = "react" THEN <<"react", "react-dom">>
                         ELSE <<>>,
          confidence |-> 9,
          warnings |-> <<>>]

\* getFileContent(package.json), checkFileExists(lerna.json) and, when that
\* one is false, checkFileExists(pnpm-workspace.yaml)
ProfileCalls(r) == IF r.lernaJson THEN 2 ELSE 3

ProfileCodebase ==
    /\ CanStart("profile-codebase")
    /\ Settle("profile-codebase",
              Returned(health, "full", ProfileCalls(remote),
                       [profile |-> ProfileOf(remote)]))

\* if (inputData.health.score >= 80) return { gitAnalysis: {} };
GitSkips(h) == h.score >= 80

PerformGitAnalysis ==
    /\ CanStart("git-analysis")
    /\ IF GitSkips(health)
       THEN Settle("git-analysis",
                   Returned(health, "skip", 0, [gitAnalysis |-> EmptyObject]))
       ELSE \E rej \in 0 .. 2 :
              Settle("git-analysis",
                     IF rej = 0
                     THEN Returned(health, "full", 2,
                            [gitAnalysis |->
                               [commitFrequency |->
                                    IF remote.commits > 50 THEN "active" ELSE "moderate",
                                busFactor |-> Min(3, remote.contributors),
                                orphanedCode |-> <<"legacy/utils.js">>,
                                contributors |-> Min(5, remote.contributors)]])
                     ELSE Threw(health, "full", rej, "HttpError"))

\* mutant: the gate of static-analysis is strict
StaticSkips_Strict(h) == h.score > 80

\* if (inputData.health.score >= 80) return { staticAnalysis: {} };
StaticSkips(h) == h.score >= 80

PerformStaticAnalysis ==
    /\ CanStart("static-analysis")
    /\ Settle("static-analysis",
              IF StaticSkips(health)
              THEN Returned(health, "skip", 0, [staticAnalysis |-> EmptyObject])
              ELSE Returned(health, "full", 0,
                     [staticAnalysis |->
                        [complexityHotspots |-> <<"src/auth/service.ts">>,
                         antiPatterns |-> <<"God object in UserController">>,
                         documentationGaps |-> <<"src/utils/helpers.ts">>]]))

\* mutant: the gate of dependency-analysis is at 60
DependencySkips_At60(h) == h.score >= 60

\* if (inputData.health.score >= 80) return { dependencyAnalysis: {} };
DependencySkips(h) == h.score >= 80

\* getFileContent catches; JSON.parse of an invalid package.json throws
PerformDependencyAnalysis ==
    /\ CanStart("dependency-analysis")
    /\ Settle("dependency-analysis",
              IF DependencySkips(health)
              THEN Returned(health, "skip", 0, [dependencyAnalysis |-> EmptyObject])
              ELSE IF remote.packageJson = "invalid"
              THEN Threw(health, "full", 1, "SyntaxError")
              ELSE Returned(health, "full", 1,
                     [dependencyAnalysis |->
                        [outdatedPackages |->
                             IF remote.packageJson = "react"
                             THEN <<"react", "react-dom">> ELSE <<>>,
                         vulnerabilities |-> <<"lodash@4.17.15">>,
                         redundantDependencies |-> <<"left-pad">>]]))

\* if (inputData.health.score >= 80) return { testAnalysis: {} };
TestSkips(h) == h.score >= 80

\* countFiles catches
PerformTestAnalysis ==
    /\ CanStart("test-analysis")
    /\ Settle("test-analysis",
              IF TestSkips(health)
              THEN Returned(health, "skip", 0, [testAnalysis |-> EmptyObject])
              ELSE Returned(health, "full", 2,
                     [testAnalysis |->
                        [coveragePercentage |->
                             IF remote.testFiles > 0
                             THEN Min(80, (remote.testFiles * 100) \div remote.srcFiles)
                             ELSE 0,
                         flakyTests |-> <<"auth/login.test.ts">>,
                         pipelineIssues |-> <<"Slow build step">>]]))

(***************************************************************************)
(* After the parallel block: .then(generateAuditReport).  The workflow has *)
(* no handler for a failed step: every branch of the block is run to its   *)
(* end, and when one of them failed the run ends failed and the report     *)
(* step is not executed.                                                   *)
(***************************************************************************)
AllSettled == \A s \in ParallelSteps : run[s].status # "pending"
SomeFailed == \E s \in ParallelSteps : run[s].status = "failed"

\* the key under which a step's output holds its section
SectionOf(s) ==
    CASE s = "pass-health" -> "health"
      [] s = "profile-codebase" -> "profile"
      [] s = "git-analysis" -> "gitAnalysis"
      [] s = "static-analysis" -> "staticAnalysis"
      [] s = "dependency-analysis" -> "dependencyAnalysis"
      [] s = "test-analysis" -> "testAnalysis"
      [] OTHER -> "repoData"

MergedSteps == ParallelSteps \ {"fetch-repo-data"}

\* the fields a populated section holds (the schemas of section 1)
SectionFields(s) ==
    CASE s = "profile-codebase" ->
            {"type", "languages", "frameworks", "confidence", "warnings"}
      [] s = "git-analysis" ->
            {"commitFrequency", "busFactor", "orphanedCode", "contributors"}
      [] s = "static-analysis" ->
            {"complexityHotspots", "antiPatterns", "documentationGaps"}
      [] s = "dependency-analysis" ->
            {"outdatedPackages", "vulnerabilities", "redundantDependencies"}
      [] s = "test-analysis" ->
            {"coveragePercentage", "flakyTests", "pipelineIssues"}
      [] OTHER -> {"score", "summary"}

ParallelFailed ==
    /\ wfStatus = "running"
    /\ AllSettled
    /\ SomeFailed
    /\ wfStatus' = "failed"
    /\ UNCHANGED <<repoUrl, remote, health, run, reportInput>>
    /\ UNCHANGED <<toolVars, depVars, detVars, covVars, aggVars, staVars, gitVars>>

GenerateAuditReport ==
    /\ wfStatus = "running"
    /\ AllSettled
    /\ ~SomeFailed
    /\ reportInput' = [s \in MergedSteps |-> run[s].output[SectionOf(s)]]
    /\ wfStatus' = "success"
    /\ UNCHANGED <<repoUrl, remote, health, run>>
    /\ UNCHANGED <<toolVars, depVars, detVars, covVars, aggVars, staVars, gitVars>>

(***************************************************************************)
(* The workflow's specification.                                           *)
(***************************************************************************)
NoFault == "none"

ToolIdle ==
    /\ toolRemote = EmptyObject
    /\ weights = EmptyObject
    /\ now = 0
    /\ ticks = 0
    /\ assessments = <<>>
    /\ lookupFault = NoFault

DepIdle == depEnv = EmptyObject /\ depRun = EmptyObject
DetIdle == detEnv = EmptyObject /\ detRun = EmptyObject
CovIdle == covEnv = EmptyObject /\ covRun = EmptyObject
AggIdle == aggEnv = EmptyObject /\ aggRun = EmptyObject
StaIdle == staEnv = EmptyObject /\ staRun = EmptyObject
GitIdle == gitEnv = EmptyObject /\ gitRun = EmptyObject

WorkflowInit ==
    /\ repoUrl \in RepoUrls
    /\ remote \in RemoteRepos
    /\ health = NoHealth
    /\ run = [s \in Steps |-> Pending]
    /\ wfStatus = "running"
    /\ reportInput = EmptyObject

Init == WorkflowInit /\ ToolIdle /\ DepIdle /\ DetIdle /\ CovIdle /\ AggIdle /\ StaIdle /\ GitIdle

Next ==
    \/ AssessHealth
    \/ PassHealth
    \/ FetchRepoData
    \/ ProfileCodebase
    \/ PerformGitAnalysis
    \/ PerformStaticAnalysis
    \/ PerformDependencyAnalysis
    \/ PerformTestAnalysis
    \/ ParallelFailed
    \/ GenerateAuditReport

Spec == Init /\ [][Next]_vars

(***************************************************************************)
(* codebaseHealthTool.  Time is counted in ticks, TicksPerDay of them to   *)
(* a day (one day is 1000 * 60 * 60 * 24 ms in the source).  A metric in   *)
(* [0,1] is held as its numerator over MetricScale, the least common       *)
(* denominator of the tool's metrics (tenths, 365ths, 50ths, 100ths).      *)
(* Sums and products are the exact ones: the source's double arithmetic    *)
(* may differ from them in the last place of a product.                    *)
(***************************************************************************)
TicksPerDay == 2
MaxTicks == 1
ActivityWindowDays == 365
IssueCeiling == 50
DependencyCeiling == 100

MetricScale == 20 * ActivityWindowDays

WeightNames == {"testCoverage", "activity", "issues", "documentation",
                "complexity", "dependencies", "ci"}

\* weights in hundredths: z.number().min(0).max(1)
WeightUnit == 100
DefaultWeights ==
    [testCoverage |-> 25, activity |-> 20, issues |-> 15, documentation |-> 10,
     complexity |-> 10, dependencies |-> 10, ci |-> 10]
WeightInputs == [WeightNames -> {0, WeightUnit}] \cup {DefaultWeights}

\* commits: the author dates of the branch's commits, newest first (in
\* ticks, Init happening at tick 0): none, a day ago, 400 days ago, and a
\* commit whose author date is 150 days ahead of the clock.
ToolRemotes ==
    [ commits       : {<<>>, <<-TicksPerDay>>, <<-400 * TicksPerDay>>,
                       <<150 * TicksPerDay>>},
      openIssues    : {0, 60},
      hasReadme     : BOOLEAN,
      hasLicense    : BOOLEAN,
      packageJson   : {<<>>, <<30>>},      \* absent, or its dependency count
      hasWorkflows  : BOOLEAN,
      coverageFiles : {0, 4} ]             \* how many of the five names exist

\* mutant: Math.round in the place of Math.floor
LastCommitDaysAgo_Rounded(commits, t) ==
    IF commits # <<>>
    THEN (2 * (t - commits[1]) + TicksPerDay) \div (2 * TicksPerDay)
    ELSE 365

\* Math.floor((Date.now() - new Date(date).getTime()) / (1000*60*60*24)), or 365
LastCommitDaysAgo(commits, t) ==
    IF commits # <<>>
    THEN (t - commits[1]) \div TicksPerDay
    ELSE 365

\* mutant: Math.abs in the place of Math.max(0, .)
ActivityMetric_Abs(days) ==
    Max(days - ActivityWindowDays, ActivityWindowDays - days)
        * (MetricScale \div ActivityWindowDays)

\* Math.max(0, 1 - lastCommitDaysAgo / 365)
ActivityMetric(days) ==
    Max(0, (ActivityWindowDays - days) * (MetricScale \div ActivityWindowDays))

\* Math.min(coverageFiles.length * 0.3, 1)
TestCoverageMetric(n) == Min(3 * n, 10) * (MetricScale \div 10)

\* Math.max(0, 1 - openIssues / 50)
IssuesMetric(n) == Max(0, (IssueCeiling - n) * (MetricScale \div IssueCeiling))

\* (readme ? 0.6 : 0) + (license ? 0.4 : 0)
DocumentationMetric(readme, license) ==
    ((IF readme THEN 6 ELSE 0) + (IF license THEN 4 ELSE 0)) * (MetricScale \div 10)

\* if (packageJson) Math.max(0, 1 - dependencyCount / 100), else the initial 0
DependenciesMetric(pkg) ==
    IF pkg # <<>>
    THEN Max(0, (DependencyCeiling - pkg[1]) * (MetricScale \div DependencyCeiling))
    ELSE 0

CiMetric(workflows) == IF workflows THEN MetricScale ELSE 0

MetricsOf(r, t) ==
    [testCoverage  |-> TestCoverageMetric(r.coverageFiles),
     activity      |-> ActivityMetric(LastCommitDaysAgo(r.commits, t)),
     issues        |-> IssuesMetric(r.openIssues),
     documentation |-> DocumentationMetric(r.hasReadme, r.hasLicense),
     complexity    |-> 0,
     dependencies  |-> DependenciesMetric(r.packageJson),
     ci            |-> CiMetric(r.hasWorkflows)]

DetailsOf(r, t) ==
    [lastCommitDaysAgo |-> LastCommitDaysAgo(r.commits, t),
     openIssues        |-> r.openIssues,
     hasReadme         |-> r.hasReadme,
     hasLicense        |-> r.hasLicense,
     dependencyCount   |-> IF r.packageJson # <<>> THEN r.packageJson[1] ELSE 0]

\* Object.values(weights).reduce((sum, w) => sum + w, 0)
TotalWeight(w) ==
    w.testCoverage + w.activity + w.issues + w.documentation
  + w.complexity + w.dependencies + w.ci

\* the sum the score rounds, times totalWeight: complexity is not a term
WeightedSum(m, w) ==
    m.testCoverage * w.testCoverage + m.activity * w.activity
  + m.issues * w.issues + m.documentation * w.documentation
  + m.dependencies * w.dependencies + m.ci * w.ci

\* Math.round(x) is floor(x + 1/2); x = 100 * WeightedSum / (MetricScale * totalWeight)
RoundedScore(m, w) ==
    (200 * WeightedSum(m, w) + MetricScale * TotalWeight(w))
        \div (2 * MetricScale * TotalWeight(w))

\* v / totalWeight is 0/0 = NaN for every weight when totalWeight is 0, and
\* Math.round of a sum of NaN terms is NaN
ScoreIsNaN(w) == TotalWeight(w) = 0

\* the lookups of checkFileExists: README.md, LICENSE, .github/workflows,
\* and the five names of checkCoverageFiles
LookupPaths == {"README.md", "LICENSE", ".github/workflows", "coverage"}

\* mutant: no catch around getContent
CheckFileExistsThrows_NoCatch(failed) == failed

\* try { await getContent(...); return true } catch { return false }:
\* whether the call throws, and what it returns
CheckFileExistsThrows(failed) == FALSE
CheckFileExists(exists, failed) == exists /\ ~failed

\* the repository as the tool's lookups see it when the lookup of path
\* fault fails ("coverage": the lookup of one coverage file that exists)
Observed(r, fault) ==
    [r EXCEPT !.hasReadme = CheckFileExists(@, fault = "README.md"),
              !.hasLicense = CheckFileExists(@, fault = "LICENSE"),
              !.hasWorkflows = CheckFileExists(@, fault = ".github/workflows"),
              !.coverageFiles = IF fault = "coverage" THEN Max(0, @ - 1) ELSE @]

\* what execute returns or throws at tick t
ToolResult(url, r, w, t, rej) ==
    IF ~UrlMatches(url)
    THEN [at |-> t, status |-> "threw", error |-> "Invalid GitHub URL",
          isNaN |-> FALSE, score |-> 0, metrics |-> EmptyObject,
          details |-> EmptyObject]
    ELSE IF rej # 0
    THEN [at |-> t, status |-> "threw", error |-> "Analysis failed",
          isNaN |-> FALSE, score |-> 0, metrics |-> EmptyObject,
          details |-> EmptyObject]
    ELSE [at |-> t, status |-> "returned", error |-> "none",
          isNaN |-> ScoreIsNaN(w),
          score |-> IF ScoreIsNaN(w) THEN 0 ELSE RoundedScore(MetricsOf(r, t), w),
          metrics |-> MetricsOf(r, t),
          details |-> DetailsOf(r, t)]

\* listCommits and listForRepo reject to the try block, which rethrows;
\* checkFileExists and getFileContent catch.
ExecuteResult(rej) ==
    IF UrlMatches(repoUrl) /\ CheckFileExistsThrows(lookupFault # NoFault)
    THEN [at |-> now, status |-> "threw", error |-> "Analysis failed: getContent",
          isNaN |-> FALSE, score |-> 0, metrics |-> EmptyObject,
          details |-> EmptyObject]
    ELSE ToolResult(repoUrl, Observed(toolRemote, lookupFault), weights, now, rej)

Execute ==
    \E rej \in 0 .. 2 :
        /\ assessments' = Append(assessments, ExecuteResult(rej))
        /\ UNCHANGED <<repoUrl, toolRemote, weights, now, ticks, lookupFault>>
        /\ UNCHANGED <<wfVars, depVars, detVars, covVars, aggVars, staVars, gitVars>>

\* the first assessment
Assess ==
    /\ assessments = <<>>
    /\ Execute

\* the clock advances, by one tick or by a hundred days
Tick ==
    /\ Len(assessments) = 1
    /\ assessments[1].status = "returned"
    /\ ticks < MaxTicks
    /\ \E dt \in {1, 100 * TicksPerDay} : now' = now + dt
    /\ ticks' = ticks + 1
    /\ UNCHANGED <<repoUrl, toolRemote, weights, assessments, lookupFault>>
    /\ UNCHANGED <<wfVars, depVars, detVars, covVars, aggVars, staVars, gitVars>>

\* a second assessment of the same repository with the same input
Reassess ==
    /\ Len(assessments) = 1
    /\ assessments[1].status = "returned"
    /\ Execute

WorkflowIdle ==
    /\ remote = EmptyObject
    /\ health = NoHealth
    /\ run = EmptyObject
    /\ wfStatus = "idle"
    /\ reportInput = EmptyObject

HealthInit ==
    /\ repoUrl \in RepoUrls
    /\ toolRemote \in ToolRemotes
    /\ weights \in WeightInputs
    /\ now = 0
    /\ ticks = 0
    /\ assessments = <<>>
    /\ lookupFault = NoFault
    /\ WorkflowIdle
    /\ DepIdle /\ DetIdle /\ CovIdle /\ AggIdle /\ StaIdle /\ GitIdle

\* the tool in an environment where one existence lookup fails
LookupWeights ==
    {DefaultWeights,
     [n \in WeightNames |-> IF n = "documentation" THEN WeightUnit ELSE 0]}

LookupInit ==
    /\ repoUrl \in RepoUrls
    /\ toolRemote \in ToolRemotes
    /\ weights \in LookupWeights
    /\ now = 0
    /\ ticks = 0
    /\ assessments = <<>>
    /\ lookupFault \in LookupPaths \cup {NoFault}
    /\ WorkflowIdle
    /\ DepIdle /\ DetIdle /\ CovIdle /\ AggIdle /\ StaIdle /\ GitIdle

HealthNext ==
    \/ Assess
    \/ Tick
    \/ Reassess

SpecHealth == HealthInit /\ [][HealthNext]_vars
SpecLookup == LookupInit /\ [][HealthNext]_vars

(***************************************************************************)
(* dependencyAnalysisTool.  The tool reads package.json, starts one        *)
(* lookup per declared dependency (Promise.all over an async callback),    *)
(* and computes the result when every callback has settled.  A callback    *)
(* runs in two uninterrupted parts: from the registry's response to the    *)
(* advisory request, and from the advisory response to its return.         *)
(* Versions are major numbers; time is in ticks since the epoch.           *)
(***************************************************************************)
DepNames == {"a", "b", "c"}

\* "a" is declared under dependencies, "b" under devDependencies, "c"
\* under both
DepSections ==
    [a |-> {"dependencies"}, b |-> {"devDependencies"},
     c |-> {"dependencies", "devDependencies"}]

InvalidVersion == 0     \* a range semver cannot read as a version: "*", "~1.2"
LatestVersion == 2      \* dist-tags.latest of every package of the registry
DepEpochDays == 1000    \* Date.now() is this many days after the epoch
DepNow == DepEpochDays * TicksPerDay

ObjectLicense == <<"{type, url}">>   \* the packument's license is an object

\* the publish time of a version released days ago (and one tick)
PublishedDaysAgo(days) == <<DepNow - days * TicksPerDay - 1>>

Package(declared, time, advisories) ==
    [declared |-> declared, registryOk |-> TRUE, time |-> time,
     deprecated |-> FALSE, license |-> <<"MIT">>,
     advisoryOk |-> TRUE, advisories |-> advisories]

\* what the manifest declares for a name, and what the registry and the
\* advisory database answer for it
PackageKinds ==
    { Package(2, PublishedDaysAgo(10), <<>>),
      Package(1, PublishedDaysAgo(10), <<>>),
      Package(1, PublishedDaysAgo(400), <<>>),
      Package(1, <<>>, <<>>),
      Package(1, PublishedDaysAgo(10), <<"critical", "high">>),
      Package(2, PublishedDaysAgo(10), <<"low">>),
      [Package(2, PublishedDaysAgo(10), <<>>) EXCEPT !.deprecated = TRUE],
      [Package(2, PublishedDaysAgo(10), <<>>) EXCEPT !.license = <<"GPL", "-3.0">>],
      [Package(1, PublishedDaysAgo(10), <<>>) EXCEPT !.license = ObjectLicense],
      Package(InvalidVersion, PublishedDaysAgo(10), <<>>),
      [Package(2, PublishedDaysAgo(10), <<>>) EXCEPT !.registryOk = FALSE],
      [Package(2, PublishedDaysAgo(10), <<"high">>) EXCEPT !.advisoryOk = FALSE] }

Manifests == UNION {[S -> PackageKinds] : S \in SUBSET DepNames}

\* weights in hundredths; the schema's refinement wants their sum within
\* 0.01 of 1
DepWeightUnit == 100
DefaultDepWeights ==
    [freshness |-> 40, vulnerability |-> 30, maintenance |-> 20, license |-> 10]
DepWeightInputs ==
    {DefaultDepWeights,
     [freshness |-> DepWeightUnit, vulnerability |-> 0, maintenance |-> 0,
      license |-> 0]}

\* packageJson: <<>> when getFileContent returns null
DepEnvs ==
    [packageJson : {<<>>} \cup {<<m>> : m \in Manifests},
     weights     : DepWeightInputs]

\* { ...pkg.dependencies, ...pkg.devDependencies }
SectionNames(m, section) == {d \in DOMAIN m : section \in DepSections[d]}
AllDeps(m) == SectionNames(m, "dependencies") \cup SectionNames(m, "devDependencies")

InitialDetails ==
    [totalDependencies |-> 0, outdatedDependencies |-> 0,
     vulnerableDependencies |-> 0, deprecatedDependencies |-> 0,
     incompatibleLicenses |-> 0, avgDaysOutdated |-> 0,
     criticalVulnerabilities |-> 0, highVulnerabilities |-> 0]

NoDepResult ==
    [error |-> "none", scoreIsNaN |-> FALSE, score |-> 0, healthStatus |-> "",
     metrics |-> EmptyObject, details |-> EmptyObject,
     problematicDependencies |-> <<>>]

DepReady ==
    [phase |-> "ready", pending |-> EmptyObject, locals |-> EmptyObject,
     analyses |-> EmptyObject, details |-> InitialDetails,
     problematicDeps |-> <<>>, result |-> NoDepResult]

DepThrew(r, err) ==
    [r EXCEPT !.phase = "threw", !.result = [NoDepResult EXCEPT !.error = err]]

\* execute up to the first await of the callbacks
DepStart ==
    /\ depRun.phase = "ready"
    /\ depRun' =
         IF ~UrlMatches(repoUrl)
         THEN DepThrew(depRun, "Invalid GitHub URL")
         ELSE IF depEnv.packageJson = <<>>
         THEN DepThrew(depRun, "Analysis failed: No package.json found")
         ELSE LET names == AllDeps(depEnv.packageJson[1]) IN
              [depRun EXCEPT
                 !.phase = "analyzing",
                 !.pending = [d \in names |-> "registry"],
                 !.locals = [d \in names |-> 0],
                 !.details.totalDependencies = Cardinality(names)]
    /\ UNCHANGED <<repoUrl, depEnv>>
    /\ UNCHANGED <<wfVars, toolVars, detVars, covVars, aggVars, staVars, gitVars>>

\* semver.lt(currentVersion, latestVersion); throws on an invalid version
SemverLt(current, latest) == current < latest

\* Math.floor(Date.now() - new Date(publishTime).getTime() / 86400000), or 0
\* without a publish time: the division binds tighter than the subtraction
DaysOutdated(time, t) ==
    IF time # <<>>
    THEN (t * TicksPerDay - time[1]) \div TicksPerDay
    ELSE 0

\* ["AGPL", "GPL", "LGPL", "SSPL"].some((l) => license.toUpperCase().includes(l));
\* a license is the sequence of the parts of its identifier
IsIncompatibleLicense(license) ==
    \E i \in DOMAIN license : license[i] \in {"AGPL", "GPL", "LGPL", "SSPL"}

\* mutant: the callback has no catch, the rejection reaches execute's
OnThrow_Rethrow(r, d) == DepThrew(r, "Analysis failed")

\* catch (err) { console.warn(...); return { daysOutdated: 0 } }
OnThrow(r, d) ==
    [r EXCEPT !.pending[d] = "done", !.analyses = [x \in {d} |-> 0] @@ @]

Bump(b) == IF b THEN 1 ELSE 0

\* the callback of d from the registry's response to the advisory request
AfterRegistry(r, k, d) ==
    IF ~k.registryOk \/ k.declared = InvalidVersion
    THEN OnThrow(r, d)
    ELSE LET outdated == SemverLt(k.declared, LatestVersion)
             days == IF outdated THEN DaysOutdated(k.time, DepNow) ELSE 0
             counted ==
                 [r EXCEPT
                    !.details.outdatedDependencies = @ + Bump(outdated),
                    !.details.deprecatedDependencies = @ + Bump(k.deprecated),
                    !.locals[d] = days]
         IN IF k.license = ObjectLicense
            THEN OnThrow(counted, d)
            ELSE [counted EXCEPT
                    !.details.incompatibleLicenses =
                        @ + Bump(IsIncompatibleLicense(k.license)),
                    !.pending[d] = "advisory"]

RegistryResponds(d) ==
    /\ depRun.phase = "analyzing"
    /\ d \in DOMAIN depRun.pending
    /\ depRun.pending[d] = "registry"
    /\ depRun' = AfterRegistry(depRun, depEnv.packageJson[1][d], d)
    /\ UNCHANGED <<repoUrl, depEnv>>
    /\ UNCHANGED <<wfVars, toolVars, detVars, covVars, aggVars, staVars, gitVars>>

\* fetchVulnerabilities: [] when the request fails
FetchVulnerabilities(k) == IF k.advisoryOk THEN k.advisories ELSE <<>>

CountOf(vulns, severity) ==
    Cardinality({i \in DOMAIN vulns : vulns[i] = severity})

\* the callback of d from the advisory response to its return
AfterAdvisory(r, k, d) ==
    LET vulns == FetchVulnerabilities(k)
        days == r.locals[d]
        entry == [name |-> d, daysOutdated |-> days, vulnerabilities |-> vulns,
                  license |-> k.license, deprecated |-> k.deprecated]
        problematic ==
            \/ days > 0
            \/ Len(vulns) > 0
            \/ k.deprecated
            \/ IsIncompatibleLicense(k.license)
    IN [r EXCEPT
          !.details.vulnerableDependencies = @ + Bump(Len(vulns) > 0),
          !.details.criticalVulnerabilities = @ + CountOf(vulns, "critical"),
          !.details.highVulnerabilities = @ + CountOf(vulns, "high"),
          !.problematicDeps = IF problematic THEN Append(@, entry) ELSE @,
          !.pending[d] = "done",
          !.analyses = [x \in {d} |-> days] @@ @]

AdvisoryResponds(d) ==
    /\ depRun.phase = "analyzing"
    /\ d \in DOMAIN depRun.pending
    /\ depRun.pending[d] = "advisory"
    /\ depRun' = AfterAdvisory(depRun, depEnv.packageJson[1][d], d)
    /\ UNCHANGED <<repoUrl, depEnv>>
    /\ UNCHANGED <<wfVars, toolVars, detVars, covVars, aggVars, staVars, gitVars>>

RECURSIVE SumOver(_, _)
SumOver(f, S) ==
    IF S = {} THEN 0
    ELSE LET x == CHOOSE y \in S : TRUE IN f[x] + SumOver(f, S \ {x})

\* Math.round of the mean of the analyses with daysOutdated > 0, or 0
AvgDaysOutdated(analyses) ==
    LET outdated == {d \in DOMAIN analyses : analyses[d] > 0}
        n == Cardinality(outdated)
    IN IF n > 0 THEN (2 * SumOver(analyses, outdated) + n) \div (2 * n) ELSE 0

NaNMetric == [isNaN |-> TRUE, num |-> 0, den |-> 1]

\* Math.max(0, 100 - (count * 100) / total): 0 / 0 is NaN and
\* Math.max(0, NaN) is NaN; count / 0 is Infinity for a positive count
ShareMetric(count, total) ==
    IF total = 0
    THEN IF count = 0 THEN NaNMetric ELSE [isNaN |-> FALSE, num |-> 0, den |-> 1]
    ELSE [isNaN |-> FALSE, num |-> Max(0, 100 * total - 100 * count), den |-> total]

\* Math.max(0, 100 - (critical * 5 + high * 3 + (vulnerable - critical - high) * 1))
VulnerabilityMetric(det) ==
    [isNaN |-> FALSE,
     num |-> Max(0, 100 - ( det.criticalVulnerabilities * 5
                          + det.highVulnerabilities * 3
                          + ( det.vulnerableDependencies
                            - det.criticalVulnerabilities
                            - det.highVulnerabilities) * 1)),
     den |-> 1]

DepMetrics(det) ==
    [freshness     |-> ShareMetric(det.outdatedDependencies, det.totalDependencies),
     vulnerability |-> VulnerabilityMetric(det),
     maintenance   |-> ShareMetric(det.deprecatedDependencies, det.totalDependencies),
     license       |-> ShareMetric(det.incompatibleLicenses, det.totalDependencies)]

DepMetricNames == {"freshness", "vulnerability", "maintenance", "license"}

\* a sum with a NaN term is NaN, whatever the term's weight
DepScoreIsNaN(m) == \E n \in DepMetricNames : m[n].isNaN

\* Math.min(100, Math.round(sum of metric * weight)); den is the common
\* denominator of the four metrics
DepScore(m, w, den) ==
    LET term(n) == m[n].num * (den \div m[n].den) * w[n]
        sum == term("freshness") + term("vulnerability")
             + term("maintenance") + term("license")
    IN Min(100, (2 * sum + den * DepWeightUnit) \div (2 * den * DepWeightUnit))

\* mutant: the band edges moved up by one
GetHealthStatus_Strict(score, isNaN) ==
    IF isNaN THEN "critical"
    ELSE IF score > 90 THEN "excellent"
    ELSE IF score > 80 THEN "good"
    ELSE IF score > 60 THEN "fair"
    ELSE IF score > 40 THEN "poor"
    ELSE "critical"

\* getHealthStatus; every comparison with NaN is false
GetHealthStatus(score, isNaN) ==
    IF isNaN THEN "critical"
    ELSE IF score >= 90 THEN "excellent"
    ELSE IF score >= 80 THEN "good"
    ELSE IF score >= 60 THEN "fair"
    ELSE IF score >= 40 THEN "poor"
    ELSE "critical"

\* (b.vulnerabilities?.length || 0) - (a.vulnerabilities?.length || 0)
\*   || b.daysOutdated - a.daysOutdated
CompareProblematic(a, b) ==
    LET byVulns == Len(b.vulnerabilities) - Len(a.vulnerabilities)
    IN IF byVulns # 0 THEN byVulns ELSE b.daysOutdated - a.daysOutdated

\* mutant: the list is returned in the order of the pushes
SortProblematic_Unsorted(s) == s

\* Array.prototype.sort with the comparator above; the sort is stable
RECURSIVE SortProblematic(_)
SortProblematic(s) ==
    IF s = <<>> THEN <<>>
    ELSE LET front == SortProblematic(SubSeq(s, 1, Len(s) - 1))
             x == s[Len(s)]
             keep == Cardinality({i \in DOMAIN front :
                                      CompareProblematic(front[i], x) <= 0})
         IN SubSeq(front, 1, keep) \o <<x>> \o SubSeq(front, keep + 1, Len(front))

\* execute after Promise.all has resolved
DepResultOf(r, w) ==
    LET det == [r.details EXCEPT !.avgDaysOutdated = AvgDaysOutdated(r.analyses)]
        m == DepMetrics(det)
        nan == DepScoreIsNaN(m)
        score == IF nan THEN 0 ELSE DepScore(m, w, Max(1, det.totalDependencies))
    IN [error |-> "none", scoreIsNaN |-> nan, score |-> score,
        healthStatus |-> GetHealthStatus(score, nan),
        metrics |-> m, details |-> det,
        problematicDependencies |-> SortProblematic(r.problematicDeps)]

DepFinish ==
    /\ depRun.phase = "analyzing"
    /\ \A d \in DOMAIN depRun.pending : depRun.pending[d] = "done"
    /\ depRun' = [depRun EXCEPT !.phase = "returned",
                                !.result = DepResultOf(depRun, depEnv.weights)]
    /\ UNCHANGED <<repoUrl, depEnv>>
    /\ UNCHANGED <<wfVars, toolVars, detVars, covVars, aggVars, staVars, gitVars>>

DepInit ==
    /\ repoUrl \in RepoUrls
    /\ depEnv \in DepEnvs
    /\ depRun = DepReady
    /\ WorkflowIdle /\ ToolIdle /\ DetIdle /\ CovIdle /\ AggIdle /\ StaIdle /\ GitIdle

DepNext ==
    \/ DepStart
    \/ \E d \in DepNames : RegistryResponds(d)
    \/ \E d \in DepNames : AdvisoryResponds(d)
    \/ DepFinish

SpecDeps == DepInit /\ [][DepNext]_vars

(***************************************************************************)
(* codebaseTypeDetector.  Package names are strings; a manifest is the     *)
(* set of names its parser extracts.  A confidence in [0,1] is held as its *)
(* numerator over ConfidenceScale.                                         *)
(***************************************************************************)
Fw(name, identifiers) == [name |-> name, identifiers |-> identifiers]

FRAMEWORK_SIGNATURES ==
    << [category |-> "frontend", frameworks |->
          << Fw("react", <<"react", "react-dom">>),
             Fw("vue", <<"vue", "vuex", "vue-router">>),
             Fw("angular", <<"@angular/core", "@angular/common">>),
             Fw("svelte", <<"svelte", "svelte-kit">>),
             Fw("nextjs", <<"next">>),
             Fw("gatsby", <<"gatsby">>),
             Fw("astro", <<"astro">>),
             Fw("remix", <<"@remix-run/react">>),
             Fw("solid", <<"solid-js">>) >>],
       [category |-> "backend", frameworks |->
          << Fw("express", <<"express">>),
             Fw("nestjs", <<"@nestjs/core">>),
             Fw("django", <<"django", "djangorestframework">>),
             Fw("flask", <<"flask">>),
             Fw("laravel", <<"laravel/framework">>),
             Fw("spring", <<"spring-core", "spring-boot">>),
             Fw("fastapi", <<"fastapi">>),
             Fw("rails", <<"rails">>),
             Fw("phoenix", <<"phoenix">>),
             Fw("actix", <<"actix-web">>) >>],
       [category |-> "web3", frameworks |->
          << Fw("ethers", <<"ethers">>),
             Fw("web3js", <<"web3">>),
             Fw("hardhat", <<"hardhat">>),
             Fw("truffle", <<"truffle">>),
             Fw("wagmi", <<"wagmi">>),
             Fw("foundry", <<"forge-std">>),
             Fw("anchor", <<"@project-serum/anchor">>),
             Fw("solana", <<"@solana/web3.js">>) >>],
       [category |-> "ai", frameworks |->
          << Fw("tensorflow", <<"@tensorflow/tfjs", "tensorflow">>),
             Fw("pytorch", <<"torch", "pytorch">>),
             Fw("langchain", <<"langchain">>),
             Fw("llama", <<"llama-index">>),
             Fw("openai", <<"openai">>),
             Fw("huggingface", <<"@huggingface/transformers">>),
             Fw("keras", <<"keras">>),
             Fw("onnx", <<"onnxruntime">>) >>],
       [category |-> "mobile", frameworks |->
          << Fw("reactnative", <<"react-native">>),
             Fw("flutter", <<"flutter">>),
             Fw("ionic", <<"@ionic/core">>),
             Fw("nativescript", <<"nativescript">>),
             Fw("capacitor", <<"@capacitor/core">>) >>],
       [category |-> "desktop", frameworks |->
          << Fw("electron", <<"electron">>),
             Fw("tauri", <<"@tauri-apps/api">>),
             Fw("wails", <<"wails">>) >>],
       [category |-> "css", frameworks |->
          << Fw("tailwind", <<"tailwindcss">>),
             Fw("bootstrap", <<"bootstrap">>),
             Fw("materialui", <<"@mui/material">>),
             Fw("chakra", <<"@chakra-ui/react">>),
             Fw("styledcomponents", <<"styled-components">>) >>],
       [category |-> "testing", frameworks |->
          << Fw("jest", <<"jest">>),
             Fw("mocha", <<"mocha">>),
             Fw("cypress", <<"cypress">>),
             Fw("playwright", <<"playwright">>),
             Fw("vitest", <<"vitest">>) >>],
       [category |-> "build", frameworks |->
          << Fw("webpack", <<"webpack">>),
             Fw("vite", <<"vite">>),
             Fw("rollup", <<"rollup">>),
             Fw("esbuild", <<"esbuild">>),
             Fw("parcel", <<"parcel">>) >>] >>

\* String.prototype.startsWith and String.prototype.includes
StartsWith(s, prefix) ==
    Len(prefix) <= Len(s) /\ SubSeq(s, 1, Len(prefix)) = prefix
Includes(s, part) ==
    \E i \in 0 .. Len(s) - Len(part) : SubSeq(s, i + 1, i + Len(part)) = part

\* depNames.some(dep => dep === id || (id.startsWith("@") && dep.startsWith(id))
\*                      || (dep.includes(id) && id.length > 3))
IdentifierMatches(depNames, id) ==
    \E dep \in depNames :
        \/ dep = id
        \/ StartsWith(id, "@") /\ StartsWith(dep, id)
        \/ Includes(dep, id) /\ Len(id) > 3

\* identifiers.filter(...).length of one framework
MatchCount(depNames, fw) ==
    Cardinality({i \in DOMAIN fw.identifiers :
                    IdentifierMatches(depNames, fw.identifiers[i])})

RECURSIVE SumSeq(_)
SumSeq(s) == IF s = <<>> THEN 0 ELSE Head(s) + SumSeq(Tail(s))

\* the frameworks of a category with a match, and the category's matches
MatchedFrameworks(depNames, cat) ==
    LET Hit(fw) == MatchCount(depNames, fw) > 0
    IN SelectSeq(cat.frameworks, Hit)
CategoryMatches(depNames, cat) ==
    SumSeq([i \in DOMAIN cat.frameworks |-> MatchCount(depNames, cat.frameworks[i])])

TotalMatches(depNames) ==
    SumSeq([i \in DOMAIN FRAMEWORK_SIGNATURES |->
               CategoryMatches(depNames, FRAMEWORK_SIGNATURES[i])])

\* Object.values(FRAMEWORK_SIGNATURES).flatMap(Object.values).flat().length
TotalPossibleIdentifiers ==
    SumSeq([i \in DOMAIN FRAMEWORK_SIGNATURES |->
               SumSeq([j \in DOMAIN FRAMEWORK_SIGNATURES[i].frameworks |->
                          Len(FRAMEWORK_SIGNATURES[i].frameworks[j].identifiers)])])

\* confidences are counted in units of 1 / ConfidenceScale, thresholds in
\* hundredths
ConfidenceScale == 5 * TotalPossibleIdentifiers

\* the categories with a matched framework, in the table's order
MatchedCategories(depNames) ==
    LET Hit(cat) == MatchedFrameworks(depNames, cat) # <<>>
    IN SelectSeq(FRAMEWORK_SIGNATURES, Hit)

\* totalMatches / totalPossibleIdentifiers, times 1.2 and capped at 1 when
\* frameworks has more than one key
Confidence(depNames) ==
    IF Len(MatchedCategories(depNames)) > 1
    THEN Min(ConfidenceScale, 6 * TotalMatches(depNames))
    ELSE 5 * TotalMatches(depNames)

\* confidence < confidenceThreshold
BelowThreshold(confidence, threshold) ==
    100 * confidence < threshold * ConfidenceScale

\* detectCodebaseType: below the threshold detectedTypes is cleared and
\* confidence zeroed; frameworks is returned as it was filled
DetectCodebaseType(dependencies, devDependencies, threshold) ==
    LET depNames == dependencies \cup devDependencies
        cats == MatchedCategories(depNames)
        detected == [i \in DOMAIN cats |-> cats[i].category]
        frameworks ==
            [c \in {cats[i].category : i \in DOMAIN cats} |->
                LET cat == CHOOSE x \in {cats[i] : i \in DOMAIN cats} : x.category = c
                    matched == MatchedFrameworks(depNames, cat)
                IN [j \in DOMAIN matched |-> matched[j].name]]
        low == BelowThreshold(Confidence(depNames), threshold)
    IN [types |-> IF low \/ detected = <<>> THEN <<"unknown">> ELSE detected,
        frameworks |-> frameworks,
        confidence |-> IF low THEN 0 ELSE Confidence(depNames)]

NoNames == {}

\* a repository: per manifest <<>> (absent) or <<content>>; package.json's
\* content may fail JSON.parse, the other contents are the names their
\* parsers extract
PackageJsons ==
    [parses : {TRUE},
     dependencies : SUBSET {"react", "react-dom", "express", "preact"},
     devDependencies : {NoNames, {"jest", "vite", "webpack", "tailwindcss"}}]
    \cup {[parses |-> FALSE, dependencies |-> NoNames, devDependencies |-> NoNames]}

DetRepos ==
    [packageJson  : {<<>>} \cup {<<p>> : p \in PackageJsons},
     requirements : {<<>>, <<{"django", "flask"}>>},
     cargo        : {<<>>, <<{"tokio"}>>},
     mix          : {<<>>, <<{"phoenix"}>>},
     gemfile      : {<<>>, <<{"rails"}>>},
     lockFiles    : {NoNames, {"yarn.lock"}}]

\* depth 1 or 2, confidenceThreshold in hundredths (min 0.1, default 0.6)
DetEnvs ==
    [repo : DetRepos, depth : {1, 2}, confidenceThreshold : {10, 30, 60}]

DetReady ==
    [phase |-> "ready", packageFiles |-> NoNames, analysis |-> EmptyObject,
     error |-> "none", result |-> EmptyObject]

\* the manifests analyzeDependencies parses (detectPackageFiles also looks
\* for build.gradle and pom.xml, which nothing reads)
ManifestContent(repo, file) ==
    CASE file = "package.json" -> repo.packageJson
      [] file = "requirements.txt" -> repo.requirements
      [] file = "Cargo.toml" -> repo.cargo
      [] file = "mix.exs" -> repo.mix
      [] file = "Gemfile" -> repo.gemfile

\* detectPackageFiles: the manifests whose getContent succeeds
PackageFilesOf(repo) ==
    {file \in {"package.json", "requirements.txt", "Cargo.toml", "mix.exs", "Gemfile"} :
        ManifestContent(repo, file) # <<>>}

\* execute: extractRepoInfo, then detectPackageFiles
DetStart ==
    /\ detRun.phase = "ready"
    /\ detRun' =
         IF ~UrlMatches(repoUrl)
         THEN [detRun EXCEPT !.phase = "threw", !.error = "Invalid GitHub URL format"]
         ELSE [detRun EXCEPT !.phase = "files",
                             !.packageFiles = PackageFilesOf(detEnv.repo)]
    /\ UNCHANGED <<repoUrl, detEnv>>
    /\ UNCHANGED <<wfVars, toolVars, depVars, covVars, aggVars, staVars, gitVars>>

\* the first lock file found names the package manager
LockManager(lockFiles) ==
    IF "package-lock.json" \in lockFiles THEN "npm"
    ELSE IF "yarn.lock" \in lockFiles THEN "yarn"
    ELSE IF "pnpm-lock.yaml" \in lockFiles THEN "pnpm"
    ELSE IF "Cargo.lock" \in lockFiles THEN "cargo"
    ELSE IF "mix.lock" \in lockFiles THEN "mix"
    ELSE IF "Gemfile.lock" \in lockFiles THEN "bundler"
    ELSE "unknown"

\* one manifest other than package.json: the package manager is set and
\* analysis.dependencies is assigned the names parsed from it
AnalyzeManifest(a, repo, files, file, manager) ==
    IF file \in files
    THEN [a EXCEPT !.packageManager = manager,
                   !.dependencies = ManifestContent(repo, file)[1]]
    ELSE a

\* package.json: dependencies, and devDependencies from depth 2
AnalyzePackageJson(a, files, content, depth) ==
    IF "package.json" \notin files THEN a
    ELSE IF ~content[1].parses
    THEN [a EXCEPT !.warnings = Append(@, "Failed to parse package.json")]
    ELSE [a EXCEPT !.dependencies = content[1].dependencies,
                   !.devDependencies =
                       IF depth >= 2 THEN content[1].devDependencies ELSE NoNames]

AnalyzeDependencies(repo, files, depth) ==
    LET a0 == [dependencies |-> NoNames, devDependencies |-> NoNames,
               packageManager |-> LockManager(repo.lockFiles), warnings |-> <<>>]
        a1 == AnalyzePackageJson(a0, files, repo.packageJson, depth)
        a2 == AnalyzeManifest(a1, repo, files, "requirements.txt", "pip")
        a3 == AnalyzeManifest(a2, repo, files, "Cargo.toml", "cargo")
        a4 == AnalyzeManifest(a3, repo, files, "mix.exs", "mix")
    IN AnalyzeManifest(a4, repo, files, "Gemfile", "bundler")

DetAnalyze ==
    /\ detRun.phase = "files"
    /\ detRun' = [detRun EXCEPT
                    !.phase = "analyzed",
                    !.analysis = AnalyzeDependencies(detEnv.repo, detRun.packageFiles,
                                                     detEnv.depth)]
    /\ UNCHANGED <<repoUrl, detEnv>>
    /\ UNCHANGED <<wfVars, toolVars, depVars, covVars, aggVars, staVars, gitVars>>

\* detectCodebaseType and the returned object
DetReturn ==
    /\ detRun.phase = "analyzed"
    /\ LET r == DetectCodebaseType(detRun.analysis.dependencies,
                                   detRun.analysis.devDependencies,
                                   detEnv.confidenceThreshold)
       IN detRun' = [detRun EXCEPT
                       !.phase = "returned",
                       !.result = [detectedTypes |-> r.types,
                                   frameworks |-> r.frameworks,
                                   confidence |-> r.confidence,
                                   packageManager |-> detRun.analysis.packageManager,
                                   warnings |-> detRun.analysis.warnings]]
    /\ UNCHANGED <<repoUrl, detEnv>>
    /\ UNCHANGED <<wfVars, toolVars, depVars, covVars, aggVars, staVars, gitVars>>

DetInit ==
    /\ repoUrl \in RepoUrls
    /\ detEnv \in DetEnvs
    /\ detRun = DetReady
    /\ WorkflowIdle /\ ToolIdle /\ DepIdle /\ CovIdle /\ AggIdle /\ StaIdle /\ GitIdle

DetNext ==
    \/ DetStart
    \/ DetAnalyze
    \/ DetReturn

SpecDetect == DetInit /\ [][DetNext]_vars

(***************************************************************************)
(* testCoverageTool.  A repository is the set of its file paths, the       *)
(* directories being their ancestors; a directory's listing returns its    *)
(* entries in name order.                                                  *)
(***************************************************************************)
\* the paths a repository may hold, in the order listings return them
CovPaths ==
    <<"coverage/coverage-final.json", "coverage/html/cobertura.xml",
      "coverage/lcov.info", "lcov.info">>
CovDirs == <<"coverage", "coverage/html">>
RootPath == ""

\* what getFileContent and the parser of the file's type do with a file
ReportOutcomes ==
    { [fetched |-> FALSE, parsed |-> FALSE, percentage |-> 0],
      [fetched |-> TRUE,  parsed |-> FALSE, percentage |-> 0],
      [fetched |-> TRUE,  parsed |-> TRUE,  percentage |-> 80],
      [fetched |-> TRUE,  parsed |-> TRUE,  percentage |-> 60] }

\* unlistable: the directories whose getContent rejects
CovRepos ==
    UNION { { [files |-> F, unlistable |-> U, outcome |-> o] :
                 U \in {{}, {RootPath}, {"coverage"}}, o \in [F -> ReportOutcomes] } :
            F \in SUBSET {CovPaths[i] : i \in DOMAIN CovPaths} }

\* depth: z.number().min(1).max(3)
CovEnvs == [repo : CovRepos, depth : 1 .. 3]

\* the directory that lists a path
ParentOf(path) ==
    LET slashes == {i \in 1 .. Len(path) : SubSeq(path, i, i) = "/"}
    IN IF slashes = {} THEN RootPath
       ELSE SubSeq(path, 1, (CHOOSE i \in slashes : \A j \in slashes : j <= i) - 1)

IsDirectory(repo, dir) == \E f \in repo.files : StartsWith(f, dir \o "/")

\* the data of getContent for a directory: its entries, by name
Listing(repo, dir) ==
    LET Child(p) == ParentOf(p) = dir
        IsFile(p) == p \in repo.files
        IsDir(p) == IsDirectory(repo, p)
        Entry(p) == Child(p) /\ (IsFile(p) \/ IsDir(p))
        all == <<CovDirs[1], CovPaths[1], CovDirs[2], CovPaths[2], CovPaths[3],
                 CovPaths[4]>>
    IN SelectSeq(all, Entry)

\* patterns, in the order of Object.entries
CoveragePatterns ==
    << [type |-> "lcov", pattern |-> "**/lcov.info"],
       [type |-> "cobertura", pattern |-> "**/cobertura.xml"],
       [type |-> "istanbul", pattern |-> "**/coverage-final.json"] >>

\* new RegExp(p.replace("**", ".*")).test(path): the pattern's text after
\* the two stars must occur in the path, a dot standing for any character
RegExpTest(pattern, path) ==
    LET rest == SubSeq(pattern, 3, Len(pattern))
    IN \E i \in 0 .. Len(path) - Len(rest) :
          \A j \in 1 .. Len(rest) :
              \/ SubSeq(rest, j, j) = "."
              \/ SubSeq(rest, j, j) = SubSeq(path, i + j, i + j)

\* the coverage file of a path: the first type with a matching pattern
CoverageFileOf(path) ==
    LET Hit(p) == RegExpTest(p.pattern, path)
        hits == SelectSeq(CoveragePatterns, Hit)
    IN IF hits = <<>> THEN <<>> ELSE <<[path |-> path, type |-> hits[1].type]>>

RECURSIVE FindFiles(_, _, _, _)
RECURSIVE FindInListing(_, _, _, _)
\* the loop over the items of one listing
FindInListing(repo, depth, items, currentDepth) ==
    IF items = <<>> THEN <<>>
    ELSE ( IF IsDirectory(repo, Head(items))
           THEN FindFiles(repo, depth, Head(items), currentDepth + 1)
           ELSE CoverageFileOf(Head(items)) )
         \o FindInListing(repo, depth, Tail(items), currentDepth)

\* findFiles: [] beyond depth and when the listing fails
FindFiles(repo, depth, path, currentDepth) ==
    IF currentDepth > depth THEN <<>>
    ELSE IF path \in repo.unlistable THEN <<>>
    ELSE FindInListing(repo, depth, Listing(repo, path), currentDepth)

CovReady ==
    [phase |-> "ready", files |-> <<>>, reports |-> <<>>, error |-> "none",
     result |-> EmptyObject]

\* execute up to the loop of findAndParseReports
CovStart ==
    /\ covRun.phase = "ready"
    /\ covRun' =
         IF ~UrlMatches(repoUrl)
         THEN [covRun EXCEPT !.phase = "threw", !.error = "Invalid GitHub URL"]
         ELSE [covRun EXCEPT
                 !.phase = "parsing",
                 !.files = FindFiles(covEnv.repo, covEnv.depth, RootPath, 1)]
    /\ UNCHANGED <<repoUrl, covEnv>>
    /\ UNCHANGED <<wfVars, toolVars, depVars, detVars, aggVars, staVars, gitVars>>

\* mutant: the loop without its try/catch
CovParseNext_NoCatch ==
    /\ covRun.phase = "parsing"
    /\ covRun.files # <<>>
    /\ LET o == covEnv.repo.outcome[Head(covRun.files).path]
       IN covRun' = IF o.fetched /\ o.parsed
                    THEN [covRun EXCEPT !.files = Tail(@),
                                        !.reports = Append(@, o.percentage)]
                    ELSE [covRun EXCEPT !.phase = "threw",
                                        !.error = "Skipping"]
    /\ UNCHANGED <<repoUrl, covEnv>>
    /\ UNCHANGED <<wfVars, toolVars, depVars, detVars, aggVars, staVars, gitVars>>

\* mutant: Math.floor in the place of Math.round
CalculateAverageCoverage_Floor(reports) ==
    IF reports = <<>>
    THEN [isNaN |-> TRUE, value |-> 0]
    ELSE [isNaN |-> FALSE, value |-> SumSeq(reports) \div Len(reports)]

\* one round of the loop: getFileContent and parseReport of the next file,
\* which is skipped when either throws
CovParseNext ==
    /\ covRun.phase = "parsing"
    /\ covRun.files # <<>>
    /\ LET o == covEnv.repo.outcome[Head(covRun.files).path]
       IN covRun' = [covRun EXCEPT
                       !.files = Tail(@),
                       !.reports = IF o.fetched /\ o.parsed
                                   THEN Append(@, o.percentage) ELSE @]
    /\ UNCHANGED <<repoUrl, covEnv>>
    /\ UNCHANGED <<wfVars, toolVars, depVars, detVars, aggVars, staVars, gitVars>>

\* Math.round(sum / percentages.length); 0 / 0 is NaN
CalculateAverageCoverage(reports) ==
    IF reports = <<>>
    THEN [isNaN |-> TRUE, value |-> 0]
    ELSE [isNaN |-> FALSE,
          value |-> (2 * SumSeq(reports) + Len(reports)) \div (2 * Len(reports))]

\* generateRecommendations; a comparison with NaN is false
GenerateRecommendations(coverage, reportCount) ==
    LET low == ~coverage.isNaN /\ coverage.value < 70
        recs == (IF low THEN <<"Increase coverage to at least 70%">> ELSE <<>>)
             \o (IF reportCount = 1
                 THEN <<"Consider generating multiple coverage reports">> ELSE <<>>)
    IN IF recs = <<>> THEN <<"Coverage looks good! Maintain current standards">>
       ELSE recs

NoReportsFound ==
    [coverage |-> [isNaN |-> FALSE, value |-> 0], reportCount |-> 0,
     hasLowCoverage |-> TRUE,
     recommendations |-> <<"No coverage reports found",
                           "Add coverage tracking using tools like Jest, Istanbul, or Cobertura">>]

\* mutant: without if (reports.length === 0) return noReportsFound()
CovResultOf_NoGuard(reports) ==
    LET coverage == CalculateAverageCoverage(reports)
    IN [coverage |-> coverage, reportCount |-> Len(reports),
        hasLowCoverage |-> ~coverage.isNaN /\ coverage.value < 70,
        recommendations |-> GenerateRecommendations(coverage, Len(reports))]

\* execute after findAndParseReports
CovResultOf(reports) ==
    IF Len(reports) = 0
    THEN NoReportsFound
    ELSE LET coverage == CalculateAverageCoverage(reports)
         IN [coverage |-> coverage, reportCount |-> Len(reports),
             hasLowCoverage |-> ~coverage.isNaN /\ coverage.value < 70,
             recommendations |-> GenerateRecommendations(coverage, Len(reports))]

CovReturn ==
    /\ covRun.phase = "parsing"
    /\ covRun.files = <<>>
    /\ covRun' = [covRun EXCEPT !.phase = "returned",
                                !.result = CovResultOf(covRun.reports)]
    /\ UNCHANGED <<repoUrl, covEnv>>
    /\ UNCHANGED <<wfVars, toolVars, depVars, detVars, aggVars, staVars, gitVars>>

CovInit ==
    /\ repoUrl \in RepoUrls
    /\ covEnv \in CovEnvs
    /\ covRun = CovReady
    /\ WorkflowIdle /\ ToolIdle /\ DepIdle /\ DetIdle /\ AggIdle /\ StaIdle /\ GitIdle

CovNext ==
    \/ CovStart
    \/ CovParseNext
    \/ CovReturn

SpecCover == CovInit /\ [][CovNext]_vars

(***************************************************************************)
(* aggregate-results of codebase-health-workflow.ts: the step copies the   *)
(* six sections of its inputData into its output.  An object is a function *)
(* from its keys to their values; a key whose value is undefined is not    *)
(* in the domain, which is how zod reads it.                               *)
(***************************************************************************)
AuditKeys ==
    {"health", "profile", "gitAnalysis", "staticAnalysis",
     "dependencyAnalysis", "testAnalysis"}

\* the keys of auditResultsSchema declared without .optional()
RequiredKeys == {"health", "profile"}

\* the fields of the section schemas
SchemaFields(key) ==
    CASE key = "health" -> {"score", "summary"}
      [] key = "profile" ->
            {"type", "languages", "frameworks", "confidence", "warnings"}
      [] key = "gitAnalysis" ->
            {"commitFrequency", "busFactor", "orphanedCode", "contributors"}
      [] key = "staticAnalysis" ->
            {"complexityHotspots", "antiPatterns", "documentationGaps"}
      [] key = "dependencyAnalysis" ->
            {"outdatedPackages", "vulnerabilities", "redundantDependencies"}
      [] key = "testAnalysis" ->
            {"coveragePercentage", "flakyTests", "pipelineIssues"}

\* a z.object of required fields accepts a value that has them all
SectionSchema(key, v) == SchemaFields(key) \subseteq DOMAIN v

\* auditResultsSchema
AuditResultsSchema(r) ==
    /\ RequiredKeys \subseteq DOMAIN r
    /\ \A key \in DOMAIN r \cap AuditKeys : SectionSchema(key, r[key])

\* the values a section of inputData takes: a populated section, and for
\* the four analyses the {} they return when the score is 80 or more
SectionValues(key) ==
    {[f \in SchemaFields(key) |-> 0]}
        \cup (IF key \in RequiredKeys THEN {} ELSE {EmptyObject})

\* inputData: any of the six sections, defined or not, and possibly a key
\* the step does not read
AggInputs ==
    UNION { {i \in [K -> UNION {SectionValues(key) : key \in AuditKeys}
                            \cup {EmptyObject}] :
                \A key \in K : IF key \in AuditKeys
                               THEN i[key] \in SectionValues(key)
                               ELSE i[key] = EmptyObject} :
            K \in SUBSET (AuditKeys \cup {"repoUrl"}) }

AggReady == [phase |-> "ready", result |-> EmptyObject, valid |-> FALSE]

\* execute: { health: inputData.health, profile: inputData.profile, ... }
AggregateAuditResults ==
    /\ aggRun.phase = "ready"
    /\ aggRun' = [aggRun EXCEPT
                    !.phase = "returned",
                    !.result = [key \in DOMAIN aggEnv \cap AuditKeys |-> aggEnv[key]]]
    /\ UNCHANGED <<repoUrl, aggEnv>>
    /\ UNCHANGED <<wfVars, toolVars, depVars, detVars, covVars, staVars, gitVars>>

\* the output against outputSchema: auditResultsSchema
CheckOutputSchema ==
    /\ aggRun.phase = "returned"
    /\ aggRun' = [aggRun EXCEPT !.phase = "checked",
                                !.valid = AuditResultsSchema(aggRun.result)]
    /\ UNCHANGED <<repoUrl, aggEnv>>
    /\ UNCHANGED <<wfVars, toolVars, depVars, detVars, covVars, staVars, gitVars>>

AggInit ==
    /\ repoUrl = CHOOSE u \in RepoUrls : UrlMatches(u)
    /\ aggEnv \in AggInputs
    /\ aggRun = AggReady
    /\ WorkflowIdle /\ ToolIdle /\ DepIdle /\ DetIdle /\ CovIdle /\ StaIdle /\ GitIdle

AggNext ==
    \/ AggregateAuditResults
    \/ CheckOutputSchema

SpecAggregate == AggInit /\ [][AggNext]_vars

(***************************************************************************)
(* staticAnalysisTool (part_005): getContents walks the tree depth first,  *)
(* one request at a time.  The recursion is kept as a stack of frames, one *)
(* per directory being iterated: its level and the items still to visit.   *)
(***************************************************************************)
\* the files a repository may hold, and their directories, as getContent
\* orders the entries of a listing
StaEntries ==
    <<"README.md", "index.js", "src", "src/App.TS", "src/lib",
      "src/lib/deep", "src/lib/deep/x.go", "src/lib/go", "src/lib/util.py">>
StaFiles ==
    {"README.md", "index.js", "src/App.TS", "src/lib/deep/x.go", "src/lib/go",
     "src/lib/util.py"}

\* the raw text of a file
ContentOf(path) ==
    CASE path = "README.md" -> "# classy\n"
      [] path = "index.js" -> "import a\nexport b\n"
      [] path = "src/App.TS" -> "class App {}"
      [] path = "src/lib/deep/x.go" -> "import fmt\nfunc main"
      [] path = "src/lib/go" -> ""
      [] path = "src/lib/util.py" -> "import os\n\ndef f():\n  pass"

\* fileExtensions and analyzePatterns: the defaults, and markdown only
DefaultExtensions == {"js", "ts", "jsx", "tsx", "py", "java", "go"}
DefaultPatterns == <<"function", "class", "import", "export">>

\* unreadable: the paths whose getContent rejects; depth: z.number().min(1).max(5)
StaRepos == [files : SUBSET StaFiles, unreadable : {{}, {"src"}, {"src/lib/util.py"}}]
StaEnvs ==
    [repo : StaRepos, depth : 1 .. 4,
     fileExtensions : {DefaultExtensions, {"md"}}]

\* the entries of a directory
StaListing(repo, dir) ==
    LET Entry(p) == ParentOf(p) = dir /\ (p \in repo.files \/ IsDirectory(repo, p))
    IN SelectSeq(StaEntries, Entry)

UpperCase == "ABCDEFGHIJKLMNOPQRSTUVWXYZ"
LowerCase == "abcdefghijklmnopqrstuvwxyz"

RECURSIVE ToLowerCase(_)
ToLowerCase(s) ==
    IF s = "" THEN ""
    ELSE LET c == SubSeq(s, 1, 1)
             hit == {i \in 1 .. Len(UpperCase) : SubSeq(UpperCase, i, i) = c}
         IN (IF hit = {} THEN c ELSE SubSeq(LowerCase, CHOOSE i \in hit : TRUE,
                                            CHOOSE i \in hit : TRUE))
            \o ToLowerCase(SubSeq(s, 2, Len(s)))

\* the text after the last occurrence of sep, the whole text when there is none
AfterLast(s, sep) ==
    LET at == {i \in 1 .. Len(s) : SubSeq(s, i, i) = sep}
    IN IF at = {} THEN s
       ELSE SubSeq(s, (CHOOSE i \in at : \A j \in at : j <= i) + 1, Len(s))

\* item.name.split(".").pop()?.toLowerCase()
ExtensionOf(path) == ToLowerCase(AfterLast(AfterLast(path, "/"), "."))

\* content.split("\n").length
LineCount(content) ==
    Cardinality({i \in 1 .. Len(content) : SubSeq(content, i, i) = "\n"}) + 1

\* the patterns of analyzePatterns the content includes, in their order
FoundPatterns(content) ==
    LET Hit(p) == Includes(content, p) IN SelectSeq(DefaultPatterns, Hit)

\* record[key] = (record[key] || 0) + 1
CountUp(record, key) ==
    [k \in DOMAIN record \cup {key} |->
        IF k = key THEN (IF key \in DOMAIN record THEN record[key] ELSE 0) + 1
        ELSE record[k]]

RECURSIVE CountUpAll(_, _)
CountUpAll(record, keys) ==
    IF keys = <<>> THEN record
    ELSE CountUpAll(CountUp(record, Head(keys)), Tail(keys))

\* mutant: no bound on the descent
BeyondDepth_Never(currentDepth, depth) == FALSE

\* if (currentDepth > depth) return;
BeyondDepth(currentDepth, depth) == currentDepth > depth

\* the body of the file branch after the content has been fetched
AnalyzeFile(r, path, extension) ==
    LET content == ContentOf(path)
    IN [r EXCEPT
          !.analysis = Append(@, [filePath |-> path,
                                  patternsFound |-> FoundPatterns(content),
                                  lineCount |-> LineCount(content)]),
          !.stats.totalFiles = @ + 1,
          !.stats.totalLines = @ + LineCount(content),
          !.stats.fileTypes = CountUp(@, extension),
          !.stats.patternDistribution = CountUpAll(@, FoundPatterns(content))]

StaReady ==
    [phase |-> "ready", stack |-> <<>>, requests |-> <<>>, structure |-> <<>>,
     analysis |-> <<>>,
     stats |-> [totalFiles |-> 0, totalLines |-> 0, fileTypes |-> EmptyObject,
                patternDistribution |-> EmptyObject],
     error |-> "none"]

\* a request to getContent, as the run records it
Request(r, path, level, kind) ==
    [r EXCEPT !.requests = Append(@, [path |-> path, level |-> level, kind |-> kind])]

StaThrew(r) == [r EXCEPT !.phase = "threw", !.error = "GitHub API request failed"]

\* getContents(path, currentDepth) up to its loop: nothing beyond depth,
\* else the listing, whose rejection ends the run
Enter(r, path, currentDepth) ==
    IF BeyondDepth(currentDepth, staEnv.depth) THEN r
    ELSE LET asked == Request(r, path, currentDepth, "list")
         IN IF path \in staEnv.repo.unreadable THEN StaThrew(asked)
            ELSE [asked EXCEPT
                    !.stack = <<[level |-> currentDepth,
                                 items |-> StaListing(staEnv.repo, path)]>> \o @]

\* execute up to the first listing
StaStart ==
    /\ staRun.phase = "ready"
    /\ staRun' =
         IF ~UrlMatches(repoUrl)
         THEN [staRun EXCEPT !.phase = "threw",
                             !.error = "Invalid GitHub repository URL"]
         ELSE Enter([staRun EXCEPT !.phase = "walking"], RootPath, 1)
    /\ UNCHANGED <<repoUrl, staEnv>>
    /\ UNCHANGED <<wfVars, toolVars, depVars, detVars, covVars, aggVars, gitVars>>

\* one round of the loop over the items of the innermost listing
StaVisit ==
    /\ staRun.phase = "walking"
    /\ staRun.stack # <<>>
    /\ Head(staRun.stack).items # <<>>
    /\ LET top == Head(staRun.stack)
           item == Head(top.items)
           rest == [staRun EXCEPT !.stack[1].items = Tail(@)]
           extension == ExtensionOf(item)
       IN staRun' =
            IF IsDirectory(staEnv.repo, item)
            THEN Enter([rest EXCEPT
                          !.structure = Append(@, [path |-> item, type |-> "dir"])],
                       item, top.level + 1)
            ELSE IF extension # "" /\ extension \in staEnv.fileExtensions
            THEN LET asked ==
                       Request([rest EXCEPT
                                  !.structure = Append(@, [path |-> item,
                                                           type |-> "file"])],
                               item, top.level, "raw")
                 IN IF item \in staEnv.repo.unreadable THEN StaThrew(asked)
                    ELSE AnalyzeFile(asked, item, extension)
            ELSE rest
    /\ UNCHANGED <<repoUrl, staEnv>>
    /\ UNCHANGED <<wfVars, toolVars, depVars, detVars, covVars, aggVars, gitVars>>

\* the loop of the innermost listing is over: getContents returns
StaLeave ==
    /\ staRun.phase = "walking"
    /\ staRun.stack # <<>>
    /\ Head(staRun.stack).items = <<>>
    /\ staRun' = [staRun EXCEPT !.stack = Tail(@)]
    /\ UNCHANGED <<repoUrl, staEnv>>
    /\ UNCHANGED <<wfVars, toolVars, depVars, detVars, covVars, aggVars, gitVars>>

\* return { structure, analysis, stats }
StaReturn ==
    /\ staRun.phase = "walking"
    /\ staRun.stack = <<>>
    /\ staRun' = [staRun EXCEPT !.phase = "returned"]
    /\ UNCHANGED <<repoUrl, staEnv>>
    /\ UNCHANGED <<wfVars, toolVars, depVars, detVars, covVars, aggVars, gitVars>>

StaInit ==
    /\ repoUrl \in RepoUrls
    /\ staEnv \in StaEnvs
    /\ staRun = StaReady
    /\ WorkflowIdle /\ ToolIdle /\ DepIdle /\ DetIdle /\ CovIdle /\ AggIdle /\ GitIdle

StaNext ==
    \/ StaStart
    \/ StaVisit
    \/ StaLeave
    \/ StaReturn

SpecStatic == StaInit /\ [][StaNext]_vars

(***************************************************************************)
(* gitHistoryTool (git-history-tool.ts): the paging loop over listCommits. *)
(* A commit is its position in the branch's history, newest first.         *)
(***************************************************************************)
MaxHistory == 7      \* the commits of the longest branch
MaxPerPage == 3      \* perPage: z.number().min(1).max(100)
MaxMaxPages == 3     \* maxPages: z.number().min(1)

\* failAt: the page whose request rejects (0: none)
GitEnvs ==
    [history : {[i \in 1 .. n |-> i] : n \in 0 .. MaxHistory},
     perPage : 1 .. MaxPerPage,
     maxPages : 1 .. MaxMaxPages,
     failAt : 0 .. MaxMaxPages]

\* commit.author?.login: every third commit has no GitHub account
LoginOf(commit) ==
    CASE commit % 3 = 0 -> <<>>
      [] commit % 3 = 1 -> <<"ann">>
      [] commit % 3 = 2 -> <<"bob">>

\* response.data of listCommits({per_page, page}): the page-th run of
\* per_page commits, shorter or empty at the end of the history
ListCommits(history, perPage, page) ==
    SubSeq(history, (page - 1) * perPage + 1, Min(page * perPage, Len(history)))

\* mutant: one page more than maxPages
LoopGuard_OneMore(hasMore, page, maxPages) == hasMore /\ page <= maxPages + 1

\* while (hasMore && page <= maxPages)
LoopGuard(hasMore, page, maxPages) == hasMore /\ page <= maxPages

GitReady ==
    [phase |-> "ready", page |-> 0, hasMore |-> FALSE, commits |-> <<>>,
     contributors |-> {}, requests |-> <<>>, error |-> "none",
     result |-> EmptyObject]

\* execute up to the loop
GitStart ==
    /\ gitRun.phase = "ready"
    /\ gitRun' =
         IF ~UrlMatches(repoUrl)
         THEN [gitRun EXCEPT !.phase = "threw",
                             !.error = "Invalid GitHub repository URL"]
         ELSE [gitRun EXCEPT !.phase = "paging", !.page = 1, !.hasMore = TRUE]
    /\ UNCHANGED <<repoUrl, gitEnv>>
    /\ UNCHANGED <<wfVars, toolVars, depVars, detVars, covVars, aggVars, staVars>>

\* one round of the loop: the request, then the break on an empty page or
\* the push of the page's commits and page++
GitFetchPage ==
    /\ gitRun.phase = "paging"
    /\ LoopGuard(gitRun.hasMore, gitRun.page, gitEnv.maxPages)
    /\ LET asked == [gitRun EXCEPT !.requests = Append(@, gitRun.page)]
           data == ListCommits(gitEnv.history, gitEnv.perPage, gitRun.page)
       IN gitRun' =
            IF gitRun.page = gitEnv.failAt
            THEN [asked EXCEPT !.phase = "threw",
                               !.error = "GitHub API request failed"]
            ELSE IF Len(data) = 0
            THEN [asked EXCEPT !.hasMore = FALSE]
            ELSE [asked EXCEPT
                    !.commits = @ \o data,
                    !.contributors =
                        @ \cup {LoginOf(data[i])[1] :
                                   i \in {j \in DOMAIN data : LoginOf(data[j]) # <<>>}},
                    !.page = @ + 1]
    /\ UNCHANGED <<repoUrl, gitEnv>>
    /\ UNCHANGED <<wfVars, toolVars, depVars, detVars, covVars, aggVars, staVars>>

\* return { commits, stats }
GitReturn ==
    /\ gitRun.phase = "paging"
    /\ ~LoopGuard(gitRun.hasMore, gitRun.page, gitEnv.maxPages)
    /\ gitRun' = [gitRun EXCEPT
                    !.phase = "returned",
                    !.result = [commits |-> gitRun.commits,
                                stats |-> [total |-> Len(gitRun.commits),
                                           contributors |-> gitRun.contributors]]]
    /\ UNCHANGED <<repoUrl, gitEnv>>
    /\ UNCHANGED <<wfVars, toolVars, depVars, detVars, covVars, aggVars, staVars>>

GitInit ==
    /\ repoUrl \in RepoUrls
    /\ gitEnv \in GitEnvs
    /\ gitRun = GitReady
    /\ WorkflowIdle /\ ToolIdle /\ DepIdle /\ DetIdle /\ CovIdle /\ AggIdle /\ StaIdle

GitNext ==
    \/ GitStart
    \/ GitFetchPage
    \/ GitReturn

SpecGit == GitInit /\ [][GitNext]_vars

\* execute is one async function: once called it runs until it settles
SpecGitFair == SpecGit /\ WF_vars(GitNext)

(***************************************************************************)
(* Properties of the workflow (checked under Spec).                        *)
(***************************************************************************)

\* C1: no deep-audit analyzer step has started unless assess-health has
\* completed with its score, and the health block each analyzer received
\* is the one assess-health returned.
C1_AnalyzersAfterHealth ==
    \A s \in Analyzers :
        run[s].status # "pending" =>
            /\ run[AssessHealthId].status = "success"
            /\ health # NoHealth
            /\ run[AssessHealthId].output.health = health
            /\ run[s].health = health

C1_Witness ==
    /\ health.score = 60
    /\ \A s \in Analyzers : run[s].status = "success" /\ run[s].health.score = 60

\* C2: when the score is >= 80, each of the five analyzer sections in the
\* data handed to the report step is absent or the empty object.
C2_HealthyOutputsDegenerate ==
    (wfStatus = "success" /\ health.score >= 80) =>
        \A s \in Analyzers :
            s \notin DOMAIN reportInput \/ reportInput[s] = EmptyObject

\* C3: when the score is >= 80, no step after assess-health has issued a
\* request to GitHub.
C3_HealthyNoRemoteCalls ==
    health.score >= 80 => \A s \in ParallelSteps : run[s].calls = 0

\* C4: when the score is < 80 and the report step is reached, all five
\* analyzer sections are present in its input and hold all their fields.
C4_AuditOutputsPopulated ==
    (wfStatus = "success" /\ health.score < 80) =>
        \A s \in Analyzers :
            /\ s \in DOMAIN reportInput
            /\ DOMAIN reportInput[s] = SectionFields(s)

C4_Witness ==
    /\ wfStatus = "success"
    /\ health.score = 70
    /\ reportInput["git-analysis"].commitFrequency = "active"
    /\ reportInput["dependency-analysis"].outdatedPackages = <<>>

\* C5: a failed analyzer step does not fail the run: the run never ends
\* failed because of an analyzer step.
C5_FailedAnalyzerTolerated ==
    wfStatus = "failed" => \A s \in Analyzers : run[s].status # "failed"

\* C6: for a repoUrl with no {owner, repo} pair, assess-health issues no
\* request and fails with an invalid-reference error.
C6_InvalidReferenceRejected ==
    ~UrlMatches(repoUrl) =>
        /\ run[AssessHealthId].calls = 0
        /\ run[AssessHealthId].status # "pending" =>
              /\ run[AssessHealthId].status = "failed"
              /\ run[AssessHealthId].error = "InvalidReference"

\* C7: the summary is "Healthy codebase" exactly when the score is >= 80,
\* and exactly then each conditional step takes its skip branch: in every
\* run, and for every score in 0 .. 100 the gates agree with the label.
C7_SingleGate ==
    /\ \A sc \in 0 .. 100 :
         LET h == [score |-> sc, summary |-> HealthSummary(sc)]
             healthy == h.summary = "Healthy codebase"
         IN /\ healthy <=> sc >= 80
            /\ GitSkips(h) <=> healthy
            /\ StaticSkips(h) <=> healthy
            /\ DependencySkips(h) <=> healthy
            /\ TestSkips(h) <=> healthy
    /\ run[AssessHealthId].status = "success" =>
         /\ (health.summary = "Healthy codebase") <=> (health.score >= 80)
         /\ \A s \in ConditionalSteps :
              run[s].status # "pending" =>
                 ((run[s].branch = "skip") <=> (health.summary = "Healthy codebase"))

C7_Witness ==
    /\ health.score = 80
    /\ health.summary = "Healthy codebase"
    /\ \A s \in ConditionalSteps : run[s].branch = "skip"

\* what repos.get, listCommits (at most per_page commits) and listForRepo
\* may answer, at and around the thresholds of the score
AssessSamples ==
    [size : {0, 1000, 1001, 2000}, commits : {0, 1, PerPage - 1, PerPage},
     openIssues : {0, 9, 10, 30}, archived : BOOLEAN]

ScoreAsClaimed(score, r) ==
    /\ score \in {30, 40, 50, 60, 70, 80}
    /\ score >= 80 <=> (r.size <= 1000 /\ r.openIssues < 10 /\ ~r.archived)

\* C29: listCommits returning at most per_page = 100 commits, the score of
\* assess-health is one of 30, 40, 50, 60, 70, 80, and it is 80 or more
\* exactly when the size is at most 1000 KB, there are fewer than 10 open
\* issues and the repository is not archived.
C29_ScoreAtMostEighty ==
    run[AssessHealthId].status = "success" =>
        /\ health.score = run[AssessHealthId].output.health.score
        /\ ScoreAsClaimed(health.score, remote)
        /\ \A r \in AssessSamples : ScoreAsClaimed(HealthScoreOf(r), r)

C29_Witness ==
    /\ run[AssessHealthId].status = "success"
    /\ remote.commits = PerPage
    /\ remote.size <= 1000 /\ remote.openIssues < 10 /\ ~remote.archived
    /\ health.score = 80
    /\ health.summary = "Healthy codebase"

(***************************************************************************)
(* Properties of codebaseHealthTool (checked under SpecHealth).            *)
(***************************************************************************)
BothReturned ==
    /\ Len(assessments) = 2
    /\ assessments[1].status = "returned"
    /\ assessments[2].status = "returned"

\* C8: for weights that are not all zero, a returned score is a number
\* in [0,100].
C8_ScoreInRange ==
    \A i \in DOMAIN assessments :
        (assessments[i].status = "returned" /\ TotalWeight(weights) > 0) =>
            /\ ~assessments[i].isNaN
            /\ assessments[i].score >= 0
            /\ assessments[i].score <= 100

\* C9: with all seven weights 0 the tool fails instead of returning, and a
\* NaN score is never returned.
C9_ZeroWeightsRejected ==
    \A i \in DOMAIN assessments :
        /\ TotalWeight(weights) = 0 => assessments[i].status = "threw"
        /\ ~assessments[i].isNaN

\* C10 (as claimed): two assessments of the same repository with the same
\* weights return the same score, whatever the moment of each.
C10_ScoreTimeIndependent ==
    BothReturned =>
        /\ assessments[1].score = assessments[2].score
        /\ assessments[1].isNaN = assessments[2].isNaN

\* the whole days from the last commit to tick t
WholeDaysSince(t) == (t - toolRemote.commits[1]) \div TicksPerDay

\* C10 (amended): two assessments of the same repository with the same
\* weights, run at moments the same whole number of days after the last
\* commit (or of a repository with no commit), return the same score.
C10_ScoreSameDayDeterministic ==
    (/\ BothReturned
     /\ \/ toolRemote.commits = <<>>
        \/ WholeDaysSince(assessments[1].at) = WholeDaysSince(assessments[2].at)) =>
        /\ assessments[1].score = assessments[2].score
        /\ assessments[1].isNaN = assessments[2].isNaN

C10_Witness ==
    /\ BothReturned
    /\ toolRemote.commits # <<>>
    /\ weights.activity > 0
    /\ assessments[1].at # assessments[2].at
    /\ WholeDaysSince(assessments[1].at) = WholeDaysSince(assessments[2].at)
    /\ assessments[1].metrics.activity > 0
    /\ assessments[1].score = assessments[2].score

\* the moments at which the monotonicity of the score is probed, in ticks
\* and in increasing order
ProbeTicks ==
    <<0, 1, TicksPerDay, 100 * TicksPerDay, 364 * TicksPerDay,
      365 * TicksPerDay, 366 * TicksPerDay, 800 * TicksPerDay>>

\* C24: the other inputs being the same, more days since the last commit
\* never mean a higher activity metric nor a higher score: between the
\* assessments of a run, and for the repository and weights of the run
\* from each probed moment to the next.
C24_ActivityNonIncreasing ==
    /\ \A i, j \in DOMAIN assessments :
          (/\ assessments[i].status = "returned"
           /\ assessments[j].status = "returned"
           /\ assessments[i].details.lastCommitDaysAgo
                 <= assessments[j].details.lastCommitDaysAgo) =>
              /\ assessments[j].metrics.activity <= assessments[i].metrics.activity
              /\ assessments[j].isNaN = assessments[i].isNaN
              /\ ~assessments[i].isNaN => assessments[j].score <= assessments[i].score
    /\ Len(assessments) = 1 =>
          \A i \in 1 .. Len(ProbeTicks) - 1 :
              LET earlier == MetricsOf(toolRemote, ProbeTicks[i])
                  later == MetricsOf(toolRemote, ProbeTicks[i + 1])
              IN /\ LastCommitDaysAgo(toolRemote.commits, ProbeTicks[i])
                       <= LastCommitDaysAgo(toolRemote.commits, ProbeTicks[i + 1])
                 /\ later.activity <= earlier.activity
                 /\ ~ScoreIsNaN(weights) =>
                       RoundedScore(later, weights) <= RoundedScore(earlier, weights)

\* a second assessment a hundred days later: lower activity, lower score
C24_Witness ==
    /\ BothReturned
    /\ assessments[1].details.lastCommitDaysAgo
          < assessments[2].details.lastCommitDaysAgo
    /\ assessments[2].metrics.activity < assessments[1].metrics.activity
    /\ assessments[2].score < assessments[1].score

(***************************************************************************)
(* Properties of codebaseHealthTool under a failing lookup (SpecLookup).   *)
(***************************************************************************)

\* C11: a failed existence lookup does not make the tool throw: the only
\* errors are the URL's and the commit and issue listings'.  When the
\* README lookup fails a returned result has details.hasReadme false and
\* a documentation metric of the LICENSE share alone; a failed LICENSE
\* lookup loses the LICENSE share, a failed workflows lookup gives ci 0.
C11_FailedLookupContained ==
    \A i \in DOMAIN assessments :
        LET a == assessments[i] IN
        /\ a.status = "threw" => a.error \in {"Invalid GitHub URL", "Analysis failed"}
        /\ (a.status = "returned" /\ lookupFault = "README.md") =>
              /\ a.details.hasReadme = FALSE
              /\ a.metrics.documentation =
                    DocumentationMetric(TRUE, toolRemote.hasLicense)
                        - 6 * (MetricScale \div 10)
        /\ (a.status = "returned" /\ lookupFault = "LICENSE") =>
              /\ a.details.hasLicense = FALSE
              /\ a.metrics.documentation =
                    DocumentationMetric(toolRemote.hasReadme, FALSE)
        /\ (a.status = "returned" /\ lookupFault = ".github/workflows") =>
              a.metrics.ci = 0

C11_Witness ==
    /\ lookupFault = "README.md"
    /\ toolRemote.hasReadme
    /\ toolRemote.hasLicense
    /\ assessments # <<>>
    /\ assessments[1].status = "returned"
    /\ assessments[1].details.hasReadme = FALSE
    /\ assessments[1].metrics.documentation = 4 * (MetricScale \div 10)
    /\ assessments[1].score = 40

(***************************************************************************)
(* Properties of dependencyAnalysisTool (checked under SpecDeps).          *)
(***************************************************************************)
DepReturned == depRun.phase = "returned"
DeclaredManifest == depEnv.packageJson[1]

\* the analysis of a package of kind k reaches its return statement
Completes(k) ==
    k.registryOk /\ k.declared # InvalidVersion /\ k.license # ObjectLicense

ListedNames ==
    {depRun.result.problematicDependencies[i].name :
        i \in DOMAIN depRun.result.problematicDependencies}

\* C12: with a readable package.json the tool does not throw, whatever
\* lookups fail; the result counts every declared name in
\* totalDependencies, every dependency has settled, and the dependencies
\* whose lookups succeeded are analyzed: each one with a matching advisory
\* is counted and listed.
C12_LookupFailureTolerated ==
    (UrlMatches(repoUrl) /\ depEnv.packageJson # <<>>) =>
        /\ depRun.phase # "threw"
        /\ DepReturned =>
             LET vulnerable ==
                     {d \in DOMAIN DeclaredManifest :
                         /\ Completes(DeclaredManifest[d])
                         /\ DeclaredManifest[d].advisoryOk
                         /\ DeclaredManifest[d].advisories # <<>>}
             IN /\ depRun.result.details.totalDependencies
                      = Cardinality(DOMAIN DeclaredManifest)
                /\ DOMAIN depRun.analyses = DOMAIN DeclaredManifest
                /\ depRun.result.details.vulnerableDependencies
                      = Cardinality(vulnerable)
                /\ vulnerable \subseteq ListedNames

C12_Witness ==
    /\ DepReturned
    /\ DOMAIN DeclaredManifest = DepNames
    /\ ~DeclaredManifest["a"].registryOk
    /\ ~DeclaredManifest["b"].advisoryOk
    /\ DeclaredManifest["c"].advisories = <<"critical", "high">>
    /\ depRun.result.details.totalDependencies = 3
    /\ depRun.result.details.vulnerableDependencies = 1
    /\ ListedNames = {"c"}

\* C13: a dependency whose analysis completed is listed in
\* problematicDependencies exactly when it is outdated, or has a matching
\* vulnerability, or is deprecated, or has an incompatible license.
C13_ProblematicIffFlagged ==
    DepReturned =>
        \A d \in DOMAIN DeclaredManifest :
            LET k == DeclaredManifest[d] IN
            Completes(k) =>
                ( d \in ListedNames <=>
                    \/ k.declared < LatestVersion
                    \/ FetchVulnerabilities(k) # <<>>
                    \/ k.deprecated
                    \/ IsIncompatibleLicense(k.license) )

\* C14: each of the four metrics of a result is a number in [0,100], and
\* so is the score.
C14_MetricsAndScoreInRange ==
    DepReturned =>
        /\ \A n \in DepMetricNames :
             LET m == depRun.result.metrics[n] IN
             /\ ~m.isNaN
             /\ m.num >= 0
             /\ m.num <= 100 * m.den
        /\ ~depRun.result.scoreIsNaN
        /\ depRun.result.score >= 0
        /\ depRun.result.score <= 100

\* the whole days from the publish time of k's latest version to now
WholeDaysOutdated(k) == (DepNow - k.time[1]) \div TicksPerDay

\* C15: the daysOutdated of a listed outdated dependency whose latest
\* version has a publish time is the whole number of days from that time
\* to now, and avgDaysOutdated is the rounded mean of these numbers.
C15_DaysOutdatedInDays ==
    DepReturned =>
        LET timed == {d \in DOMAIN DeclaredManifest :
                          /\ Completes(DeclaredManifest[d])
                          /\ DeclaredManifest[d].declared < LatestVersion
                          /\ DeclaredManifest[d].time # <<>>}
            days == [d \in timed |-> WholeDaysOutdated(DeclaredManifest[d])]
            n == Cardinality(timed)
        IN /\ \A i \in DOMAIN depRun.result.problematicDependencies :
                LET e == depRun.result.problematicDependencies[i] IN
                e.name \in timed => e.daysOutdated = days[e.name]
           /\ n > 0 =>
                depRun.result.details.avgDaysOutdated
                    = (2 * SumOver(days, timed) + n) \div (2 * n)

\* C16: of two adjacent entries of problematicDependencies the first has
\* more vulnerabilities than the second, or as many and a daysOutdated at
\* least as large.
C16_SortedWorstFirst ==
    DepReturned =>
        \A i \in 1 .. Len(depRun.result.problematicDependencies) - 1 :
            LET a == depRun.result.problematicDependencies[i]
                b == depRun.result.problematicDependencies[i + 1]
            IN \/ Len(a.vulnerabilities) > Len(b.vulnerabilities)
               \/ /\ Len(a.vulnerabilities) = Len(b.vulnerabilities)
                  /\ a.daysOutdated >= b.daysOutdated

C16_Witness ==
    /\ DepReturned
    /\ Len(depRun.result.problematicDependencies) = 3
    /\ depRun.result.problematicDependencies # depRun.problematicDeps
    /\ Len(depRun.result.problematicDependencies[1].vulnerabilities) = 2
    /\ Len(depRun.result.problematicDependencies[2].vulnerabilities) = 0
    /\ depRun.result.problematicDependencies[1].daysOutdated
          < depRun.result.problematicDependencies[2].daysOutdated
    /\ depRun.result.problematicDependencies[2].daysOutdated
          > depRun.result.problematicDependencies[3].daysOutdated

\* the band of a score: >= 90 excellent, 80..89 good, 60..79 fair,
\* 40..59 poor, anything else critical
InBand(status, score, numeric) ==
    /\ status = "excellent" <=> (numeric /\ score >= 90)
    /\ status = "good" <=> (numeric /\ score \in 80 .. 89)
    /\ status = "fair" <=> (numeric /\ score \in 60 .. 79)
    /\ status = "poor" <=> (numeric /\ score \in 40 .. 59)
    /\ status = "critical" <=> (~numeric \/ score < 40)

\* C17: getHealthStatus maps every score to its band, and the healthStatus
\* of a result is the band of the score of that result.
C17_StatusIsBandOfScore ==
    /\ \A sc \in 0 .. 100 : InBand(GetHealthStatus(sc, FALSE), sc, TRUE)
    /\ DepReturned =>
         InBand(depRun.result.healthStatus, depRun.result.score,
                ~depRun.result.scoreIsNaN)

C17_Witness ==
    /\ DepReturned
    /\ depRun.result.score = 80
    /\ depRun.result.healthStatus = "good"
    /\ depRun.result.details.outdatedDependencies = 1

\* the names in the order of Object.entries({...dependencies, ...devDependencies})
DeclaredOrder == <<"a", "c", "b">>

\* the entries of s in the order their dependencies are declared
InDeclaredOrder(s) ==
    LET Pushed(d) == \E i \in DOMAIN s : s[i].name = d
        names == SelectSeq(DeclaredOrder, Pushed)
    IN [i \in DOMAIN names |->
           s[CHOOSE j \in DOMAIN s : s[j].name = names[i]]]

\* the counters of details as the callbacks leave them, whatever their order
CountersOf(m) ==
    LET Reached(d) == m[d].registryOk /\ m[d].declared # InvalidVersion
        Count(P(_)) == Cardinality({d \in DOMAIN m : P(d)})
        Outdated(d) == Reached(d) /\ m[d].declared < LatestVersion
        Deprecated(d) == Reached(d) /\ m[d].deprecated
        Incompatible(d) == Completes(m[d]) /\ IsIncompatibleLicense(m[d].license)
        Vulnerable(d) == Completes(m[d]) /\ FetchVulnerabilities(m[d]) # <<>>
    IN [outdatedDependencies |-> Count(Outdated),
        deprecatedDependencies |-> Count(Deprecated),
        incompatibleLicenses |-> Count(Incompatible),
        vulnerableDependencies |-> Count(Vulnerable)]

\* the counters are the same for every order of completion
C26_CountersOrderIndependent ==
    DepReturned =>
        \A n \in DOMAIN CountersOf(DeclaredManifest) :
            depRun.result.details[n] = CountersOf(DeclaredManifest)[n]

\* C26: the result does not depend on the order in which the lookups
\* complete: the counters are those of the manifest, and
\* problematicDependencies is the list that the sort gives when the
\* entries are pushed in the order of declaration.
C26_ResultOrderIndependent ==
    DepReturned =>
        /\ \A n \in DOMAIN CountersOf(DeclaredManifest) :
              depRun.result.details[n] = CountersOf(DeclaredManifest)[n]
        /\ depRun.result.problematicDependencies
              = SortProblematic(InDeclaredOrder(depRun.problematicDeps))

\* two runs on one manifest whose entries tie: either order is returned
TiedPair ==
    /\ DepReturned
    /\ DOMAIN DeclaredManifest = {"a", "b"}
    /\ DeclaredManifest["a"].deprecated
    /\ IsIncompatibleLicense(DeclaredManifest["b"].license)
    /\ Len(depRun.result.problematicDependencies) = 2
C26_TieDeclaredFirst ==
    TiedPair /\ depRun.result.problematicDependencies[1].name = "a"
C26_TieDeclaredLast ==
    TiedPair /\ depRun.result.problematicDependencies[1].name = "b"

\* C27: a dependency whose analysis throws and is skipped leaves the
\* counters untouched: each of the four counters counts only dependencies
\* whose analysis completed, and every dependency counted is listed in
\* problematicDependencies.
C27_SkippedLeavesCountersUntouched ==
    DepReturned =>
        LET m == DeclaredManifest
            done == {d \in DOMAIN m : Completes(m[d])}
            outdated == {d \in done : m[d].declared < LatestVersion}
            deprecated == {d \in done : m[d].deprecated}
            incompatible == {d \in done : IsIncompatibleLicense(m[d].license)}
            vulnerable == {d \in done : FetchVulnerabilities(m[d]) # <<>>}
        IN /\ depRun.result.details.outdatedDependencies = Cardinality(outdated)
           /\ depRun.result.details.deprecatedDependencies = Cardinality(deprecated)
           /\ depRun.result.details.incompatibleLicenses = Cardinality(incompatible)
           /\ depRun.result.details.vulnerableDependencies = Cardinality(vulnerable)
           /\ (outdated \cup deprecated \cup incompatible \cup vulnerable)
                 \subseteq ListedNames

\* the counters alone, on manifests whose every analysis completes
C27_CountersWhenAllComplete ==
    (DepReturned /\ \A d \in DOMAIN DeclaredManifest : Completes(DeclaredManifest[d])) =>
        /\ depRun.result.details.outdatedDependencies
              = Cardinality({d \in DOMAIN DeclaredManifest :
                                DeclaredManifest[d].declared < LatestVersion})
        /\ depRun.result.details.deprecatedDependencies
              = Cardinality({d \in DOMAIN DeclaredManifest : DeclaredManifest[d].deprecated})

(***************************************************************************)
(* Properties of codebaseTypeDetector (checked under SpecDetect).          *)
(***************************************************************************)
DetReturned == detRun.phase = "returned"

\* the names detectCodebaseType matched against the signature table
AnalyzedNames == detRun.analysis.dependencies \cup detRun.analysis.devDependencies

\* C18: when the computed confidence is below confidenceThreshold the
\* result has detectedTypes ["unknown"], an empty frameworks mapping and
\* confidence 0; no result has frameworks next to the "unknown" type.
C18_CollapseBelowThreshold ==
    DetReturned =>
        /\ BelowThreshold(Confidence(AnalyzedNames), detEnv.confidenceThreshold) =>
             /\ detRun.result.detectedTypes = <<"unknown">>
             /\ detRun.result.frameworks = EmptyObject
             /\ detRun.result.confidence = 0
        /\ detRun.result.detectedTypes = <<"unknown">> =>
             detRun.result.frameworks = EmptyObject

\* C19: for a repository whose only manifest is a package.json with the
\* dependencies react and react-dom, at threshold 0.3, detectedTypes
\* includes "frontend" and frameworks["frontend"] includes "react".
C19_ReactDetectedAsFrontend ==
    ( /\ DetReturned
      /\ PackageFilesOf(detEnv.repo) = {"package.json"}
      /\ detEnv.repo.packageJson[1].parses
      /\ detEnv.repo.packageJson[1].dependencies = {"react", "react-dom"}
      /\ detEnv.repo.packageJson[1].devDependencies = NoNames
      /\ detEnv.confidenceThreshold = 30 ) =>
        /\ \E i \in DOMAIN detRun.result.detectedTypes :
              detRun.result.detectedTypes[i] = "frontend"
        /\ "frontend" \in DOMAIN detRun.result.frameworks
        /\ \E j \in DOMAIN detRun.result.frameworks["frontend"] :
              detRun.result.frameworks["frontend"][j] = "react"

\* the names parsed from one discovered manifest
ParsedFrom(file) ==
    LET content == ManifestContent(detEnv.repo, file)[1]
    IN IF file # "package.json" THEN content
       ELSE IF ~content.parses THEN NoNames
       ELSE content.dependencies
               \cup (IF detEnv.depth >= 2 THEN content.devDependencies ELSE NoNames)

\* C30: with more than one supported manifest in the repository, the names
\* matched against the signature table are the union of the names parsed
\* from every discovered manifest.
C30_UnionOfManifests ==
    (DetReturned /\ Cardinality(detRun.packageFiles) > 1) =>
        AnalyzedNames = UNION {ParsedFrom(file) : file \in detRun.packageFiles}

\* with a single manifest the matched names are the names parsed from it
C30_SingleManifest ==
    (DetReturned /\ Cardinality(detRun.packageFiles) = 1) =>
        AnalyzedNames = UNION {ParsedFrom(file) : file \in detRun.packageFiles}

(***************************************************************************)
(* Properties of testCoverageTool (checked under SpecCover).               *)
(***************************************************************************)
\* the directories above a path, the root included
AncestorsOf(path) ==
    {RootPath} \cup {SubSeq(path, 1, i - 1) :
                        i \in {j \in 1 .. Len(path) : SubSeq(path, j, j) = "/"}}

\* the report files of the repository that lie in a directory under some
\* directory (the patterns start with **/), at a level within depth, under
\* listable directories only, and that can be fetched and parsed
ParsedReportFiles ==
    {f \in covEnv.repo.files :
        /\ Cardinality(AncestorsOf(f)) >= 2
        /\ Cardinality(AncestorsOf(f)) <= covEnv.depth
        /\ AncestorsOf(f) \cap covEnv.repo.unlistable = {}
        /\ covEnv.repo.outcome[f].fetched
        /\ covEnv.repo.outcome[f].parsed}

\* C20: the tool throws only for an invalid URL, and when no report file
\* is found within depth and parsed the result is coverage 0, reportCount
\* 0, hasLowCoverage true, with recommendations.
C20_NoReportsDegenerate ==
    /\ UrlMatches(repoUrl) => covRun.phase # "threw"
    /\ (covRun.phase = "returned" /\ ParsedReportFiles = {}) =>
          /\ covRun.reports = <<>>
          /\ ~covRun.result.coverage.isNaN
          /\ covRun.result.coverage.value = 0
          /\ covRun.result.reportCount = 0
          /\ covRun.result.hasLowCoverage
          /\ covRun.result.recommendations # <<>>
          /\ DOMAIN covRun.result
                = {"coverage", "reportCount", "hasLowCoverage", "recommendations"}

\* every report file fails to fetch or to parse
C20_Witness ==
    /\ covRun.phase = "returned"
    /\ covEnv.depth = 3
    /\ covEnv.repo.unlistable = {}
    /\ covEnv.repo.files = {CovPaths[i] : i \in DOMAIN CovPaths}
    /\ ~covEnv.repo.outcome["coverage/lcov.info"].fetched
    /\ ~covEnv.repo.outcome["coverage/coverage-final.json"].parsed
    /\ ~covEnv.repo.outcome["coverage/html/cobertura.xml"].parsed
    /\ covRun.result = NoReportsFound

\* C21: a report file that cannot be fetched or parsed is skipped alone:
\* the tool throws only for an invalid URL, and a result counts exactly
\* the report files found that could be fetched and parsed.
C21_FailedReportSkipped ==
    /\ UrlMatches(repoUrl) => covRun.phase # "threw"
    /\ covRun.phase = "returned" =>
          /\ Len(covRun.reports) = Cardinality(ParsedReportFiles)
          /\ covRun.result.reportCount = Cardinality(ParsedReportFiles)
          /\ SumSeq(covRun.reports)
                = SumOver([f \in ParsedReportFiles |->
                              covEnv.repo.outcome[f].percentage], ParsedReportFiles)

C21_Witness ==
    /\ covRun.phase = "returned"
    /\ covEnv.depth = 3
    /\ covEnv.repo.unlistable = {}
    /\ covEnv.repo.files = {CovPaths[i] : i \in DOMAIN CovPaths}
    /\ ~covEnv.repo.outcome["coverage/coverage-final.json"].parsed
    /\ ~covEnv.repo.outcome["coverage/html/cobertura.xml"].fetched
    /\ covEnv.repo.outcome["coverage/lcov.info"].percentage = 80
    /\ covRun.result.reportCount = 1
    /\ covRun.result.coverage.value = 80

\* C22: with n >= 1 parsed reports the coverage is the mean of their
\* percentages rounded to the nearest whole number (halves up), and
\* hasLowCoverage is true exactly when the coverage is below 70.
C22_CoverageIsRoundedMean ==
    (covRun.phase = "returned" /\ ParsedReportFiles # {}) =>
        LET n == Cardinality(ParsedReportFiles)
            sum == SumOver([f \in ParsedReportFiles |->
                               covEnv.repo.outcome[f].percentage], ParsedReportFiles)
            c == covRun.result.coverage
        IN /\ ~c.isNaN
           /\ 2 * n * c.value - n <= 2 * sum
           /\ 2 * sum < 2 * n * c.value + n
           /\ covRun.result.hasLowCoverage <=> c.value < 70

\* reports at 80 and 60 give coverage 70, not low
C22_Witness ==
    /\ covRun.phase = "returned"
    /\ covRun.reports = <<60, 80>>
    /\ covRun.result.coverage.value = 70
    /\ ~covRun.result.hasLowCoverage
    /\ covRun.result.reportCount = 2

(***************************************************************************)
(* Properties of aggregate-results (checked under SpecAggregate).          *)
(***************************************************************************)
OnlyHealthDefined == DOMAIN aggEnv \cap AuditKeys = {"health"}

\* C23: the aggregator merge is total: with only health defined it returns
\* (no error), the other five sections are absent from the result, and
\* the result satisfies the audit-result schema.
C23_MergeIsTotal ==
    (aggRun.phase = "checked" /\ OnlyHealthDefined) =>
        /\ DOMAIN aggRun.result = {"health"}
        /\ aggRun.result.health = aggEnv.health
        /\ aggRun.valid

\* what does hold: the step returns for every input, copying the sections
C23_MergeReturns ==
    aggRun.phase = "checked" =>
        /\ DOMAIN aggRun.result = DOMAIN aggEnv \cap AuditKeys
        /\ \A key \in DOMAIN aggRun.result : aggRun.result[key] = aggEnv[key]
        /\ aggRun.valid <=> AuditResultsSchema(aggRun.result)

(***************************************************************************)
(* Properties of staticAnalysisTool (checked under SpecStatic).            *)
(***************************************************************************)
\* the level of a path: 1 for the entries of the root
LevelOf(path) == Cardinality(AncestorsOf(path))

\* the text after the last dot of the path's name, whatever its case, is listed
HasAllowedExtension(path) ==
    \E e \in staEnv.fileExtensions :
        /\ Len(path) > Len(e)
        /\ ToLowerCase(SubSeq(path, Len(path) - Len(e), Len(path))) = "." \o e

AnalysesOf(path) ==
    {i \in DOMAIN staRun.analysis : staRun.analysis[i].filePath = path}

\* C25: no directory is listed at a level beyond depth (the root being
\* level 1); on return every file with a listed extension at a level
\* within depth has exactly one analysis entry, every entry is of such a
\* level's file, totalFiles is the number of entries and totalLines the
\* sum of their lineCount.
C25_TraversalBoundedAndExact ==
    /\ \A i \in DOMAIN staRun.requests :
          LET q == staRun.requests[i]
          IN q.kind = "list" =>
                /\ q.level <= staEnv.depth
                /\ q.level = IF q.path = RootPath THEN 1 ELSE LevelOf(q.path) + 1
    /\ staRun.phase = "returned" =>
          /\ \A f \in staEnv.repo.files :
                (LevelOf(f) <= staEnv.depth /\ HasAllowedExtension(f)) =>
                    Cardinality(AnalysesOf(f)) = 1
          /\ \A i \in DOMAIN staRun.analysis :
                LET f == staRun.analysis[i].filePath
                IN /\ f \in staEnv.repo.files
                   /\ LevelOf(f) <= staEnv.depth
                   /\ AnalysesOf(f) = {i}
                   /\ staRun.analysis[i].lineCount = LineCount(ContentOf(f))
          /\ staRun.stats.totalFiles = Len(staRun.analysis)
          /\ staRun.stats.totalLines
                = SumSeq([i \in DOMAIN staRun.analysis |-> staRun.analysis[i].lineCount])

\* depth 2 of a tree four levels deep: the two files of levels 1 and 2
\* are analyzed, the deeper ones are not
C25_Witness ==
    /\ staRun.phase = "returned"
    /\ staEnv.depth = 2
    /\ staEnv.repo.files = StaFiles
    /\ staEnv.fileExtensions = DefaultExtensions
    /\ Len(staRun.analysis) = 2
    /\ staRun.stats.totalFiles = 2
    /\ staRun.stats.totalLines = 4
    /\ \E i \in DOMAIN staRun.requests : staRun.requests[i].path = "src"
    /\ \A i \in DOMAIN staRun.requests : staRun.requests[i].path # "src/lib"

(***************************************************************************)
(* Properties of gitHistoryTool (checked under SpecGitFair).               *)
(***************************************************************************)
GitSettled == gitRun.phase \in {"returned", "threw"}

\* at most maxPages requests, for the pages 1, 2, ... in this order, none
\* after an empty page; a result holds the first commits of the history,
\* at most perPage x maxPages of them, and stats.total is their number
PagingBounded ==
    /\ Len(gitRun.requests) <= gitEnv.maxPages
    /\ \A i \in DOMAIN gitRun.requests :
          /\ gitRun.requests[i] = i
          /\ i < Len(gitRun.requests) =>
                ListCommits(gitEnv.history, gitEnv.perPage, i) # <<>>
    /\ gitRun.phase = "returned" =>
          /\ Len(gitRun.result.commits) <= gitEnv.perPage * gitEnv.maxPages
          /\ gitRun.result.stats.total = Len(gitRun.result.commits)
          /\ gitRun.result.commits
                = SubSeq(gitEnv.history, 1,
                         Min(Len(gitEnv.history), gitEnv.perPage * gitEnv.maxPages))

\* C28: the paging loop always terminates, within the bounds above.
C28_PagingTerminates == []PagingBounded /\ <>GitSettled

\* three pages allowed, the second one is the last with commits, the third
\* is empty: three requests, and nothing beyond
C28_Witness ==
    /\ gitRun.phase = "returned"
    /\ gitEnv.maxPages = 3
    /\ gitEnv.perPage = 2
    /\ Len(gitEnv.history) = 4
    /\ gitRun.requests = <<1, 2, 3>>
    /\ ~gitRun.hasMore
    /\ gitRun.result.stats.total = 4

=============================================================================
